---- MODULE Spec2Model ----
(***************************************************************************)
(* A model of IGES_GEOM_SEGMENT (src/src/geom/geom_segment.cpp): a planar  *)
(* line, circular arc or circle, and the intersection of two of them.      *)
(*                                                                         *)
(* Numbers.  The code computes in doubles.  The model computes in exact    *)
(* integer arithmetic on a grid: every input coordinate is an integer      *)
(* number of grid steps, and `scale` grid steps make one unit of length.   *)
(* Two grids are explored: scale = 1 (whole units, where every tolerance   *)
(* of the code is below one grid step) and scale = 4096 (a step of 2^-12,  *)
(* where the 1e-3 tolerances span about four grid steps).  On both grids   *)
(* the coordinates are exactly representable doubles.  A computed point is *)
(* a rational point [x, y, z, w] standing for (x/w, y/w, z/w), w > 0, in   *)
(* lowest terms.  Square roots are taken only of perfect squares (the      *)
(* actions are guarded by that), so sqrt is exact as it is in IEEE         *)
(* arithmetic; a comparison against the root of a non-square is made on    *)
(* the squares.  An angle atan2(y, x) + 2*pi*k is the triple               *)
(* [k, x, y] with (x, y) a direction in lowest terms; angles are compared  *)
(* exactly by half-plane and cross product.                                *)
(*                                                                         *)
(* Rounding.  What rounding does to two circles is explored apart (dseg,   *)
(* DoubleSpec): there SetParams for a circle, checkCircles and the start   *)
(* of calcCircleIntercepts are computed in IEEE double arithmetic, on      *)
(* inputs written as decimal literals.                                     *)
(***************************************************************************)
EXTENDS Integers, Sequences, FiniteSets, TLC

VARIABLES
    scale,          \* grid steps per unit of length
    seg,            \* the two IGES_GEOM_SEGMENT objects
    aIntersectList, \* the caller's std::list<IGES_POINT>
    flags,          \* the caller's IGES_INTERSECT_FLAG
    call,           \* the last call made: operation, arguments, return value,
                    \* and (was) the receiver's kind before a SetParams
    entities,       \* the entities of the IGES model: their parent sets and
                    \* child lists
    gcall,          \* the last operation on the entity graph
    outline,        \* a board outline: its state, segments, stitched-in
                    \* outlines and holes
    ocall,          \* the last operation on the outline
    dseg,           \* two IGES_GEOM_SEGMENT objects with their fields in
                    \* doubles
    dcall           \* the last call made on them

segmentVars == <<scale, seg, aIntersectList, flags, call>>
graphVars == <<entities, gcall>>
outlineVars == <<outline, ocall>>
doubleVars == <<dseg, dcall>>
vars == <<segmentVars, graphVars, outlineVars, doubleVars>>

SEGTYPE_NONE == 0
SEGTYPE_LINE == 1
SEGTYPE_ARC == 2
SEGTYPE_CIRCLE == 4

IGES_IFLAG_NONE == "NONE"
IGES_IFLAG_ENCIRCLES == "ENCIRCLES"
IGES_IFLAG_INSIDE == "INSIDE"
IGES_IFLAG_TANGENT == "TANGENT"
IGES_IFLAG_EDGE == "EDGE"
IGES_IFLAG_IDENT == "IDENT"

(* bounds of the model *)
MaxList == 4

(***************************************************************************)
(* Integer helpers                                                         *)
(***************************************************************************)
Abs(n) == IF n < 0 THEN -n ELSE n

RECURSIVE GCD(_, _)
GCD(a, b) == IF b = 0 THEN a ELSE GCD(b, a % b)

RECURSIVE isqrt(_, _, _)
isqrt(n, lo, hi) ==
    IF lo >= hi THEN lo
    ELSE LET mid == (lo + hi + 1) \div 2
         IN  IF mid * mid <= n THEN isqrt(n, mid, hi) ELSE isqrt(n, lo, mid - 1)

\* sqrt(n), n a perfect square
Sqrt(n) == isqrt(n, 0, IF n < 1024 THEN 32 ELSE IF n < 1048576 THEN 1024 ELSE 46340)

IsSquare(n) == n >= 0 /\ Sqrt(n) * Sqrt(n) = n

(***************************************************************************)
(* IGES_POINT                                                              *)
(***************************************************************************)
Pt(px, py, pz) == [x |-> px, y |-> py, z |-> pz, w |-> 1]

\* the point (nx/d, ny/d, 0), d > 0, in lowest terms
RatPt(nx, ny, d) ==
    LET g == GCD(GCD(Abs(nx), Abs(ny)), d)
    IN  [x |-> nx \div g, y |-> ny \div g, z |-> 0, w |-> d \div g]

\* IGES_POINT(): a default-constructed point.  checkArcLine assigns p[i].x
\* and p[i].y only and relies on the constructor for z = 0.
DefaultPoint == Pt(0, 0, 0)

\* a tolerance num/den in units of length
Tol(n, d) == [num |-> n, den |-> d]
Tol8 == Tol(1, 100000000)
Tol3 == Tol(1, 1000)

\* dx*dx + dy*dy for two grid points
Dist2(p, q) == (p.x - q.x) * (p.x - q.x) + (p.y - q.y) * (p.y - q.y)

\* PointMatches( p, q, tol ) for grid points: |p - q| < tol.
\* |p - q| is sqrt(d2) grid steps and tol is tol.num*scale/tol.den grid steps;
\* a tolerance of at most one step is met by d2 = 0 alone.
PointMatches(p, q, tol) ==
    LET d2 == Dist2(p, q) + (p.z - q.z) * (p.z - q.z)
    IN  IF tol.num * scale <= tol.den
        THEN d2 = 0
        ELSE d2 * tol.den * tol.den < (tol.num * scale) * (tol.num * scale)

\* abs( v ) < 0.001 for v a whole number of grid steps
AbsLt3(v) == Abs(v) * 1000 < scale

\* abs( sqrt(d2) - m ) < 0.001, in grid steps: 1000m - s < sqrt(10^6 d2) < 1000m + s
AbsSqrtDiffLt3(d2, m) ==
    /\ 1000000 * d2 < (1000 * m + scale) * (1000 * m + scale)
    /\ \/ 1000 * m - scale < 0
       \/ 1000000 * d2 > (1000 * m - scale) * (1000 * m - scale)

\* abs( sqrt(d2) - m ) > 1.0e-3, in grid steps
AbsSqrtDiffGt3(d2, m) ==
    \/ 1000000 * d2 > (1000 * m + scale) * (1000 * m + scale)
    \/ /\ 1000 * m - scale > 0
       /\ 1000000 * d2 < (1000 * m - scale) * (1000 * m - scale)

\* abs( D ) < 0.001 for D in (grid steps)^4: 1000|D| < scale^4
AbsLt3Quartic(D) == (1000 * Abs(D)) \div (scale * scale) < scale * scale

(***************************************************************************)
(* Angles                                                                  *)
(***************************************************************************)
\* the direction (dx, dy) in lowest terms; atan2( 0, 0 ) is 0
Dir(dx, dy) ==
    LET g == GCD(Abs(dx), Abs(dy))
    IN  IF g = 0 THEN <<1, 0>> ELSE <<dx \div g, dy \div g>>

\* atan2( dy, dx ), a value in (-pi, pi]
atan2(dy, dx) == [k |-> 0, x |-> Dir(dx, dy)[1], y |-> Dir(dx, dy)[2]]

\* a + 2.0 * M_PI
AddTwoPi(a) == [a EXCEPT !.k = a.k + 1]

\* where atan2 falls: 0 in (-pi,0), 1 at 0, 2 in (0,pi), 3 at pi
HalfRank(a) ==
    IF a.y < 0 THEN 0
    ELSE IF a.y > 0 THEN 2
    ELSE IF a.x > 0 THEN 1 ELSE 3

AngLt(a, b) ==
    \/ a.k < b.k
    \/ /\ a.k = b.k
       /\ \/ HalfRank(a) < HalfRank(b)
          \/ /\ HalfRank(a) = HalfRank(b)
             /\ a.x * b.y - a.y * b.x > 0

AngLe(a, b) == ~AngLt(b, a)

\* a >= 0.0 for a value of atan2
AngNonNeg(a) == a.k > 0 \/ (a.k = 0 /\ HalfRank(a) >= 1)

Ang0 == atan2(0, 1)

(***************************************************************************)
(* IGES_GEOM_SEGMENT                                                       *)
(***************************************************************************)
init ==
    [msegtype |-> SEGTYPE_NONE, mCWArc |-> FALSE, mradius |-> 0,
     msang |-> Ang0, meang |-> Ang0,
     mcenter |-> Pt(0, 0, 0), mstart |-> Pt(0, 0, 0), mend |-> Pt(0, 0, 0)]

\* SetParams( aStart, aEnd ) with the z test on aStart alone
SetParamsLine_StartZOnly(aStart, aEnd) ==
    IF 0 # aStart.z
    THEN [ok |-> FALSE, s |-> init]
    ELSE IF PointMatches(aStart, aEnd, Tol8)
    THEN [ok |-> FALSE, s |-> init]
    ELSE [ok |-> TRUE,
          s |-> [init EXCEPT !.mstart = aStart, !.mend = aEnd,
                             !.msegtype = SEGTYPE_LINE]]

\* SetParams( aStart, aEnd ) with msegtype set ahead of the tests
SetParamsLine_KindSetEarly(aStart, aEnd) ==
    IF 0 # aStart.z \/ 0 # aEnd.z
    THEN [ok |-> FALSE, s |-> [init EXCEPT !.msegtype = SEGTYPE_LINE]]
    ELSE IF PointMatches(aStart, aEnd, Tol8)
    THEN [ok |-> FALSE, s |-> [init EXCEPT !.msegtype = SEGTYPE_LINE]]
    ELSE [ok |-> TRUE,
          s |-> [init EXCEPT !.mstart = aStart, !.mend = aEnd,
                             !.msegtype = SEGTYPE_LINE]]

\* SetParams( aStart, aEnd ): the line form
SetParamsLine(aStart, aEnd) ==
    IF 0 # aStart.z \/ 0 # aEnd.z
    THEN [ok |-> FALSE, s |-> init]
    ELSE IF PointMatches(aStart, aEnd, Tol8)
    THEN [ok |-> FALSE, s |-> init]
    ELSE [ok |-> TRUE,
          s |-> [init EXCEPT !.mstart = aStart, !.mend = aEnd,
                             !.msegtype = SEGTYPE_LINE]]

\* while( meang < msang ) meang += 2.0 * M_PI;
RECURSIVE RaiseEnd(_, _)
RaiseEnd(meang, msang) ==
    IF AngLt(meang, msang) THEN RaiseEnd(AddTwoPi(meang), msang) ELSE meang

\* SetParams( aCenter, aStart, aEnd, isCW ) without "mCWArc = isCW"
SetParamsArc_CWNotStored(aCenter, aStart, aEnd, isCW) ==
    IF 0 # aCenter.z \/ 0 # aStart.z \/ 0 # aEnd.z
    THEN [ok |-> FALSE, s |-> init]
    ELSE IF PointMatches(aCenter, aStart, Tol8) \/ PointMatches(aCenter, aEnd, Tol8)
    THEN [ok |-> FALSE, s |-> init]
    ELSE
    LET radius == Sqrt(Dist2(aStart, aCenter))
        r2sq == Dist2(aEnd, aCenter)
        sang == atan2(aStart.y - aCenter.y, aStart.x - aCenter.x)
        eang == atan2(aEnd.y - aCenter.y, aEnd.x - aCenter.x)
        sang1 == IF isCW THEN eang ELSE sang
        eang1 == IF isCW THEN sang ELSE eang
    IN  IF PointMatches(aStart, aEnd, Tol8)
        THEN [ok |-> TRUE,
              s |-> [init EXCEPT !.mradius = radius,
                                 !.msegtype = SEGTYPE_CIRCLE,
                                 !.mcenter = aCenter,
                                 !.mstart = Pt(aCenter.x + radius, aCenter.y, aCenter.z),
                                 !.mend = Pt(aCenter.x + radius, aCenter.y, aCenter.z)]]
        ELSE IF AbsSqrtDiffGt3(r2sq, radius)
        THEN [ok |-> FALSE, s |-> [init EXCEPT !.mradius = 0]]
        ELSE [ok |-> TRUE,
              s |-> [init EXCEPT !.mradius = radius,
                                 !.msang = sang1,
                                 !.meang = RaiseEnd(eang1, sang1),
                                 !.mcenter = aCenter,
                                 !.mstart = aStart,
                                 !.mend = aEnd,
                                 !.msegtype = SEGTYPE_ARC]]

\* SetParams( aCenter, aStart, aEnd, isCW ) without "mradius = 0" where the
\* radii differ
SetParamsArc_RadiusLeft(aCenter, aStart, aEnd, isCW) ==
    IF 0 # aCenter.z \/ 0 # aStart.z \/ 0 # aEnd.z
    THEN [ok |-> FALSE, s |-> init]
    ELSE IF PointMatches(aCenter, aStart, Tol8) \/ PointMatches(aCenter, aEnd, Tol8)
    THEN [ok |-> FALSE, s |-> init]
    ELSE
    LET radius == Sqrt(Dist2(aStart, aCenter))
        r2sq == Dist2(aEnd, aCenter)
        sang == atan2(aStart.y - aCenter.y, aStart.x - aCenter.x)
        eang == atan2(aEnd.y - aCenter.y, aEnd.x - aCenter.x)
        sang1 == IF isCW THEN eang ELSE sang
        eang1 == IF isCW THEN sang ELSE eang
    IN  IF PointMatches(aStart, aEnd, Tol8)
        THEN [ok |-> TRUE,
              s |-> [init EXCEPT !.mradius = radius,
                                 !.msegtype = SEGTYPE_CIRCLE,
                                 !.mcenter = aCenter,
                                 !.mstart = Pt(aCenter.x + radius, aCenter.y, aCenter.z),
                                 !.mend = Pt(aCenter.x + radius, aCenter.y, aCenter.z)]]
        ELSE IF AbsSqrtDiffGt3(r2sq, radius)
        THEN [ok |-> FALSE, s |-> [init EXCEPT !.mradius = radius]]
        ELSE [ok |-> TRUE,
              s |-> [init EXCEPT !.mradius = radius,
                                 !.msang = sang1,
                                 !.meang = RaiseEnd(eang1, sang1),
                                 !.mcenter = aCenter,
                                 !.mstart = aStart,
                                 !.mend = aEnd,
                                 !.msegtype = SEGTYPE_ARC,
                                 !.mCWArc = isCW]]

\* SetParams( aCenter, aStart, aEnd, isCW ): the arc form
SetParamsArc(aCenter, aStart, aEnd, isCW) ==
    IF 0 # aCenter.z \/ 0 # aStart.z \/ 0 # aEnd.z
    THEN [ok |-> FALSE, s |-> init]
    ELSE IF PointMatches(aCenter, aStart, Tol8) \/ PointMatches(aCenter, aEnd, Tol8)
    THEN [ok |-> FALSE, s |-> init]
    ELSE
    LET radius == Sqrt(Dist2(aStart, aCenter))
        r2sq == Dist2(aEnd, aCenter)
        sang == atan2(aStart.y - aCenter.y, aStart.x - aCenter.x)
        eang == atan2(aEnd.y - aCenter.y, aEnd.x - aCenter.x)
        sang1 == IF isCW THEN eang ELSE sang
        eang1 == IF isCW THEN sang ELSE eang
    IN  IF PointMatches(aStart, aEnd, Tol8)
        THEN [ok |-> TRUE,
              s |-> [init EXCEPT !.mradius = radius,
                                 !.msegtype = SEGTYPE_CIRCLE,
                                 !.mcenter = aCenter,
                                 !.mstart = Pt(aCenter.x + radius, aCenter.y, aCenter.z),
                                 !.mend = Pt(aCenter.x + radius, aCenter.y, aCenter.z)]]
        ELSE IF AbsSqrtDiffGt3(r2sq, radius)
        THEN [ok |-> FALSE, s |-> [init EXCEPT !.mradius = 0]]
        ELSE [ok |-> TRUE,
              s |-> [init EXCEPT !.mradius = radius,
                                 !.msang = sang1,
                                 !.meang = RaiseEnd(eang1, sang1),
                                 !.mcenter = aCenter,
                                 !.mstart = aStart,
                                 !.mend = aEnd,
                                 !.msegtype = SEGTYPE_ARC,
                                 !.mCWArc = isCW]]

getStart(s) == IF s.mCWArc THEN s.mend ELSE s.mstart

getEnd(s) == IF s.mCWArc THEN s.mstart ELSE s.mend

(***************************************************************************)
(* Intersections.  Each check returns [ret, list, flags]: the return       *)
(* value, the caller's list after the call and the caller's flag.          *)
(***************************************************************************)
Result(r, l, f) == [ret |-> r, list |-> l, flags |-> f]

\* dx*dx + dy*dy of checkCircles: d is its square root
CenterDist2(self, aSegment) == Dist2(self.mcenter, aSegment.mcenter)

\* mradius^2 - rd^2 of calcCircleIntercepts, times 4 d^2:
\* with k = d^2 - r2^2 + mradius^2, rd = k / (2d) and
\* 4 d^2 (mradius^2 - rd^2) = 4 d^2 mradius^2 - k^2
Radicand(self, r2, d2) ==
    LET k == d2 - r2 * r2 + self.mradius * self.mradius
    IN  4 * d2 * self.mradius * self.mradius - k * k

\* calcCircleIntercepts with a sign slip in the second point:
\* x1 = x - h * dy, y1 = y + h * dx
calcCircleIntercepts_SecondSign(self, c2, r2, d2) ==
    LET k == d2 - r2 * r2 + self.mradius * self.mradius
        den == 2 * d2
        dy == c2.y - self.mcenter.y
        dx == c2.x - self.mcenter.x
        S == Sqrt(Radicand(self, r2, d2))
        xn == k * dx + self.mcenter.x * den
        yn == k * dy + self.mcenter.y * den
        x0 == xn + S * dy
        y0 == yn + S * dx
        x1 == xn - S * dy
        y1 == yn + S * dx
        a0 == atan2(y0 - self.mcenter.y * den, x0 - self.mcenter.x * den)
        a1 == atan2(y1 - self.mcenter.y * den, x1 - self.mcenter.x * den)
        swap == \/ (AngNonNeg(a0) /\ AngNonNeg(a1) /\ AngLt(a1, a0))
                \/ (~AngNonNeg(a0) /\ ~AngNonNeg(a1) /\ AngLt(a1, a0))
                \/ (~AngNonNeg(a0) /\ AngNonNeg(a1))
    IN  IF swap
        THEN <<RatPt(x1, y1, den), RatPt(x0, y0, den)>>
        ELSE <<RatPt(x0, y0, den), RatPt(x1, y1, den)>>

\* calcCircleIntercepts( c2, r2, d, p1, p2 ), d = sqrt(d2), d # 0.
\* rd / d = k / (2 d2) and h = sqrt( mradius^2 - rd^2 ) / d = S / (2 d2) with
\* S = sqrt(Radicand): every coordinate is a rational over den = 2 d2.
calcCircleIntercepts(self, c2, r2, d2) ==
    LET k == d2 - r2 * r2 + self.mradius * self.mradius
        den == 2 * d2
        dy == c2.y - self.mcenter.y
        dx == c2.x - self.mcenter.x
        S == Sqrt(Radicand(self, r2, d2))
        \* x = rd / d * dx + mcenter.x, y = rd / d * dy + mcenter.y, over den
        xn == k * dx + self.mcenter.x * den
        yn == k * dy + self.mcenter.y * den
        \* first intersection point: x0 = x + h * dy, y0 = y + h * dx
        x0 == xn + S * dy
        y0 == yn + S * dx
        \* second intersection point: x1 = x - h * dy, y1 = y - h * dx
        x1 == xn - S * dy
        y1 == yn - S * dx
        a0 == atan2(y0 - self.mcenter.y * den, x0 - self.mcenter.x * den)
        a1 == atan2(y1 - self.mcenter.y * den, x1 - self.mcenter.x * den)
        swap == \/ (AngNonNeg(a0) /\ AngNonNeg(a1) /\ AngLt(a1, a0))
                \/ (~AngNonNeg(a0) /\ ~AngNonNeg(a1) /\ AngLt(a1, a0))
                \/ (~AngNonNeg(a0) /\ AngNonNeg(a1))
    IN  IF swap
        THEN <<RatPt(x1, y1, den), RatPt(x0, y0, den)>>
        ELSE <<RatPt(x0, y0, den), RatPt(x1, y1, den)>>

\* checkCircles with the test for identical circles moved ahead of the
\* test d > ( mradius + r2 )
checkCircles_IdentFirst(self, aSegment, list, fl) ==
    LET c2 == aSegment.mcenter
        r2 == aSegment.mradius
        d2 == CenterDist2(self, aSegment)
        sum == self.mradius + r2
    IN  IF PointMatches(self.mcenter, c2, Tol3) /\ AbsLt3(self.mradius - r2)
        THEN Result(FALSE, list, IGES_IFLAG_IDENT)
        ELSE IF d2 > sum * sum
        THEN Result(FALSE, list, fl)
        ELSE IF AbsSqrtDiffLt3(d2, sum)
        THEN Result(FALSE, list, IGES_IFLAG_TANGENT)
        ELSE IF /\ (d2 < self.mradius * self.mradius \/ d2 < r2 * r2)
                /\ self.mradius - r2 >= 0
                /\ d2 <= (self.mradius - r2) * (self.mradius - r2)
        THEN Result(FALSE, list, IGES_IFLAG_ENCIRCLES)
        ELSE IF /\ (d2 < self.mradius * self.mradius \/ d2 < r2 * r2)
                /\ r2 - self.mradius >= 0
                /\ d2 <= (r2 - self.mradius) * (r2 - self.mradius)
        THEN Result(FALSE, list, IGES_IFLAG_INSIDE)
        ELSE LET p == calcCircleIntercepts(self, c2, r2, d2)
             IN  Result(TRUE, list \o <<p[1], p[2]>>, fl)

\* check case where both segments are circles
checkCircles(self, aSegment, list, fl) ==
    LET c2 == aSegment.mcenter
        r2 == aSegment.mradius
        d2 == CenterDist2(self, aSegment)
        sum == self.mradius + r2
    IN  \* d > ( mradius + r2 )
        IF d2 > sum * sum
        THEN Result(FALSE, list, fl)
        ELSE IF PointMatches(self.mcenter, c2, Tol3) /\ AbsLt3(self.mradius - r2)
        THEN Result(FALSE, list, IGES_IFLAG_IDENT)
        ELSE IF AbsSqrtDiffLt3(d2, sum)
        THEN Result(FALSE, list, IGES_IFLAG_TANGENT)
        ELSE IF /\ (d2 < self.mradius * self.mradius \/ d2 < r2 * r2)
                \* d <= (mradius - r2)
                /\ self.mradius - r2 >= 0
                /\ d2 <= (self.mradius - r2) * (self.mradius - r2)
        THEN Result(FALSE, list, IGES_IFLAG_ENCIRCLES)
        ELSE IF /\ (d2 < self.mradius * self.mradius \/ d2 < r2 * r2)
                \* d <= (r2 - mradius)
                /\ r2 - self.mradius >= 0
                /\ d2 <= (r2 - self.mradius) * (r2 - self.mradius)
        THEN Result(FALSE, list, IGES_IFLAG_INSIDE)
        ELSE LET p == calcCircleIntercepts(self, c2, r2, d2)
             IN  Result(TRUE, list \o <<p[1], p[2]>>, fl)

\* check case where both segments are arcs (one may be a circle):
\* the body starts with "return false"
checkArcs(self, aSegment, list, fl) == Result(FALSE, list, fl)

\* checkLines ending in "return true"
checkLines_ReturnsTrue(self, aSegment, list, fl) == Result(TRUE, list, fl)

\* check case where both segments are lines: the body is "return false"
checkLines(self, aSegment, list, fl) == Result(FALSE, list, fl)

\* the arc (or circle) and the line of checkArcLine
ArcOf(self, aSegment) ==
    IF self.msegtype = SEGTYPE_ARC \/ self.msegtype = SEGTYPE_CIRCLE
    THEN self ELSE aSegment

LineOf(self, aSegment) ==
    IF self.msegtype = SEGTYPE_ARC \/ self.msegtype = SEGTYPE_CIRCLE
    THEN aSegment ELSE self

\* the coefficients A, B, C of A*t^2 + B*t + C = 0
QuadA(lS, lE) ==
    (lS.x * lS.x - 2 * lS.x * lE.x + lE.x * lE.x)
    + (lS.y * lS.y - 2 * lS.y * lE.y + lE.y * lE.y)

QuadB(arcC, lS, lE) ==
    2 * (arcC.x * lE.x - arcC.x * lS.x + lS.x * lE.x - lE.x * lE.x)
    + 2 * (arcC.y * lE.y - arcC.y * lS.y + lS.y * lE.y - lE.y * lE.y)

QuadC(arcC, arcR, lE) ==
    (arcC.x * arcC.x - 2 * arcC.x * lE.x + lE.x * lE.x)
    + (arcC.y * arcC.y - 2 * arcC.y * lE.y + lE.y * lE.y)
    - arcR * arcR

\* D = B * B - 4.0 * A * C
Discriminant(arcC, arcR, lS, lE) ==
    QuadB(arcC, lS, lE) * QuadB(arcC, lS, lE)
    - 4 * QuadA(lS, lE) * QuadC(arcC, arcR, lE)

\* t >= 0.0 && t <= 1.0 for t = n / den, den > 0
InUnit(n, den) == n >= 0 /\ n <= den

\* the point t * lS + (1.0 - t) * lE for t = n / den
LinePoint(n, den, lS, lE) ==
    RatPt(n * lS.x + (den - n) * lE.x, n * lS.y + (den - n) * lE.y, den)

\* the angle of a computed point about the arc's centre
AngleAbout(p, arcC) == atan2(p.y - arcC.y * p.w, p.x - arcC.x * p.w)

\* the test of "check if each point is on the arc"
OnArc(ang, arcSAng, arcEAng) ==
    \/ (AngLe(arcSAng, ang) /\ AngLe(ang, arcEAng))
    \/ (AngLe(arcSAng, AddTwoPi(ang)) /\ AngLe(AddTwoPi(ang), arcEAng))

\* checkArcLine with the test D < 0 ahead of the tangent test
checkArcLine_NegativeFirst(self, aSegment, list, fl) ==
    LET arc == ArcOf(self, aSegment)
        line == LineOf(self, aSegment)
        arcCircle == arc.msegtype = SEGTYPE_CIRCLE
        arcSAng == IF arcCircle THEN Ang0 ELSE arc.msang
        arcEAng == IF arcCircle THEN Ang0 ELSE arc.meang
        arcC == arc.mcenter
        lS == getStart(line)
        lE == getEnd(line)
        A == QuadA(lS, lE)
        B == QuadB(arcC, lS, lE)
        D == Discriminant(arcC, arc.mradius, lS, lE)
        den == 2 * A
        t0 == -B + Sqrt(D)
        t1 == -B - Sqrt(D)
        in0 == InUnit(t0, den)
        in1 == InUnit(t1, den)
        np == (IF in0 THEN 1 ELSE 0) + (IF in1 THEN 1 ELSE 0)
        \* IGES_POINT p[2]: p[np] is written for each root kept
        p == <<IF in0 THEN LinePoint(t0, den, lS, lE)
               ELSE IF in1 THEN LinePoint(t1, den, lS, lE)
               ELSE DefaultPoint,
               IF in0 /\ in1 THEN LinePoint(t1, den, lS, lE) ELSE DefaultPoint>>
        \* ang[i] is set for i < np only; it is read for i >= np only when
        \* arcCircle and np = 0, where p[0] = p[1] and the order is immaterial
        ang == [i \in 1..2 |-> IF i <= np THEN AngleAbout(p[i], arcC) ELSE Ang0]
        swap == IF AngNonNeg(ang[1])
                THEN AngNonNeg(ang[2]) /\ AngLt(ang[2], ang[1])
                ELSE AngNonNeg(ang[2]) \/ AngLt(ang[2], ang[1])
        on == [i \in 1..2 |-> i <= np /\ OnArc(ang[i], arcSAng, arcEAng)]
        \* IGES_POINT pt[2]: pt[i] = p[i] for each i on the arc
        pt == [i \in 1..2 |-> IF on[i] THEN p[i] ELSE DefaultPoint]
        np2 == (IF on[1] THEN 1 ELSE 0) + (IF on[2] THEN 1 ELSE 0)
        ord == [i \in 1..2 |->
                   IF AngLt(ang[i], arcSAng) THEN AddTwoPi(ang[i]) ELSE ang[i]]
    IN  IF D < 0
        THEN Result(FALSE, list, IGES_IFLAG_NONE)
        ELSE IF AbsLt3Quartic(D)
        THEN Result(FALSE, list, IGES_IFLAG_TANGENT)
        ELSE IF arcCircle
        THEN IF np = 1
             THEN Result(TRUE, list \o <<p[1]>>, IGES_IFLAG_NONE)
             ELSE IF swap
             THEN Result(TRUE, list \o <<p[2], p[1]>>, IGES_IFLAG_NONE)
             ELSE Result(TRUE, list \o <<p[1], p[2]>>, IGES_IFLAG_NONE)
        ELSE IF np2 = 0
        THEN Result(FALSE, list, IGES_IFLAG_NONE)
        ELSE IF np2 = 1
        THEN Result(TRUE, list \o <<pt[1]>>, IGES_IFLAG_NONE)
        ELSE IF AngLt(ord[1], ord[2])
        THEN Result(TRUE, list \o <<pt[1], pt[2]>>, IGES_IFLAG_NONE)
        ELSE Result(TRUE, list \o <<pt[2], pt[1]>>, IGES_IFLAG_NONE)

\* check case where one segment is an arc and one a line
checkArcLine(self, aSegment, list, fl) ==
    LET arc == ArcOf(self, aSegment)
        line == LineOf(self, aSegment)
        arcCircle == arc.msegtype = SEGTYPE_CIRCLE
        arcSAng == IF arcCircle THEN Ang0 ELSE arc.msang
        arcEAng == IF arcCircle THEN Ang0 ELSE arc.meang
        arcC == arc.mcenter
        lS == getStart(line)
        lE == getEnd(line)
        A == QuadA(lS, lE)
        B == QuadB(arcC, lS, lE)
        D == Discriminant(arcC, arc.mradius, lS, lE)
        den == 2 * A
        t0 == -B + Sqrt(D)
        t1 == -B - Sqrt(D)
        in0 == InUnit(t0, den)
        in1 == InUnit(t1, den)
        np == (IF in0 THEN 1 ELSE 0) + (IF in1 THEN 1 ELSE 0)
        \* IGES_POINT p[2]: p[np] is written for each root kept
        p == <<IF in0 THEN LinePoint(t0, den, lS, lE)
               ELSE IF in1 THEN LinePoint(t1, den, lS, lE)
               ELSE DefaultPoint,
               IF in0 /\ in1 THEN LinePoint(t1, den, lS, lE) ELSE DefaultPoint>>
        \* ang[i] is set for i < np only; it is read for i >= np only when
        \* arcCircle and np = 0, where p[0] = p[1] and the order is immaterial
        ang == [i \in 1..2 |-> IF i <= np THEN AngleAbout(p[i], arcC) ELSE Ang0]
        swap == IF AngNonNeg(ang[1])
                THEN AngNonNeg(ang[2]) /\ AngLt(ang[2], ang[1])
                ELSE AngNonNeg(ang[2]) \/ AngLt(ang[2], ang[1])
        on == [i \in 1..2 |-> i <= np /\ OnArc(ang[i], arcSAng, arcEAng)]
        \* IGES_POINT pt[2]: pt[i] = p[i] for each i on the arc
        pt == [i \in 1..2 |-> IF on[i] THEN p[i] ELSE DefaultPoint]
        np2 == (IF on[1] THEN 1 ELSE 0) + (IF on[2] THEN 1 ELSE 0)
        ord == [i \in 1..2 |->
                   IF AngLt(ang[i], arcSAng) THEN AddTwoPi(ang[i]) ELSE ang[i]]
    IN  IF AbsLt3Quartic(D)
        THEN Result(FALSE, list, IGES_IFLAG_TANGENT)
        ELSE IF D < 0
        THEN Result(FALSE, list, IGES_IFLAG_NONE)
        ELSE IF arcCircle
        THEN IF np = 1
             THEN Result(TRUE, list \o <<p[1]>>, IGES_IFLAG_NONE)
             ELSE IF swap
             THEN Result(TRUE, list \o <<p[2], p[1]>>, IGES_IFLAG_NONE)
             ELSE Result(TRUE, list \o <<p[1], p[2]>>, IGES_IFLAG_NONE)
        ELSE IF np2 = 0
        THEN Result(FALSE, list, IGES_IFLAG_NONE)
        ELSE IF np2 = 1
        THEN Result(TRUE, list \o <<pt[1]>>, IGES_IFLAG_NONE)
        ELSE IF AngLt(ord[1], ord[2])
        THEN Result(TRUE, list \o <<pt[1], pt[2]>>, IGES_IFLAG_NONE)
        ELSE Result(TRUE, list \o <<pt[2], pt[1]>>, IGES_IFLAG_NONE)

\* calculate intersections with another segment (list of points)
GetIntersections(self, aSegment, list) ==
    IF SEGTYPE_NONE = self.msegtype
    THEN Result(FALSE, list, IGES_IFLAG_NONE)
    ELSE IF SEGTYPE_NONE = aSegment.msegtype
    THEN Result(FALSE, list, IGES_IFLAG_NONE)
    ELSE IF SEGTYPE_CIRCLE = self.msegtype
    THEN IF SEGTYPE_CIRCLE = aSegment.msegtype
         THEN checkCircles(self, aSegment, list, IGES_IFLAG_NONE)
         ELSE IF SEGTYPE_ARC = aSegment.msegtype
         THEN checkArcs(self, aSegment, list, IGES_IFLAG_NONE)
         ELSE checkArcLine(self, aSegment, list, IGES_IFLAG_NONE)
    ELSE IF SEGTYPE_ARC = self.msegtype
    THEN IF SEGTYPE_LINE = aSegment.msegtype
         THEN checkArcLine(self, aSegment, list, IGES_IFLAG_NONE)
         ELSE checkArcs(self, aSegment, list, IGES_IFLAG_NONE)
    ELSE IF SEGTYPE_LINE = aSegment.msegtype
    THEN checkLines(self, aSegment, list, IGES_IFLAG_NONE)
    ELSE checkArcLine(self, aSegment, list, IGES_IFLAG_NONE)

(***************************************************************************)
(* GetBoundingBox( p0, p1 ): p0 and p1 are the caller's points, read and   *)
(* written by reference.  The result is [ret, p0, p1].                     *)
(***************************************************************************)
Box(r, a, b) == [ret |-> r, p0 |-> a, p1 |-> b]

\* the angles the arc's interval is tested against
AngPi == atan2(0, -1)
AngHalfPi == atan2(1, 0)
AngMinusHalfPi == atan2(-1, 0)

\* t >= aS && t <= aE
Between(t, aS, aE) == AngLe(aS, t) /\ AngLe(t, aE)

\* IGES_POINT m[4] and ne: the extrema noted for the arc s, in order
ArcExtrema(s) ==
    LET aS == s.msang
        aE == s.meang
        top == Pt(s.mcenter.x, s.mcenter.y + s.mradius, 0)
    IN  (IF Between(Ang0, aS, aE) \/ Between(AddTwoPi(Ang0), aS, aE)
         THEN <<Pt(s.mcenter.x + s.mradius, s.mcenter.y, 0)>> ELSE <<>>)
        \o (IF Between(AngHalfPi, aS, aE) \/ Between(AddTwoPi(AngHalfPi), aS, aE)
            THEN <<top>> ELSE <<>>)
        \o (IF Between(AngPi, aS, aE) THEN <<top>> ELSE <<>>)
        \o (IF Between(AngMinusHalfPi, aS, aE) \/ Between(AddTwoPi(AngMinusHalfPi), aS, aE)
            THEN <<top>> ELSE <<>>)

\* the loop over m[0..ne-1], from entry i on
RECURSIVE WidenBox(_, _, _, _)
WidenBox(m, i, p0, p1) ==
    IF i > Len(m) THEN <<p0, p1>>
    ELSE WidenBox(m, i + 1,
             [p0 EXCEPT !.x = IF m[i].x < p0.x THEN m[i].x ELSE p0.x,
                        !.y = IF m[i].y > p0.y THEN m[i].y ELSE p0.y],
             [p1 EXCEPT !.x = IF m[i].x > p1.x THEN m[i].x ELSE p1.x,
                        !.y = IF m[i].y < p1.y THEN m[i].y ELSE p1.y])

\* + calculate the top-left and bottom-right rectangular bounds
GetBoundingBox(s, p0, p1) ==
    IF SEGTYPE_NONE = s.msegtype
    THEN Box(FALSE, p0, p1)
    ELSE IF SEGTYPE_LINE = s.msegtype
    THEN IF s.mstart.x = s.mend.x
         THEN \* we have a vertical line
              IF s.mstart.y > s.mend.y
              THEN Box(TRUE, s.mstart, s.mend)
              ELSE Box(TRUE, s.mend, s.mstart)
         ELSE Box(TRUE,
                  [p0 EXCEPT !.x = IF s.mstart.x < s.mend.x THEN s.mstart.x ELSE s.mend.x,
                             !.y = IF s.mstart.y >= s.mend.y THEN s.mstart.y ELSE s.mend.y],
                  [p1 EXCEPT !.x = IF s.mstart.x < s.mend.x THEN s.mend.x ELSE s.mstart.x,
                             !.y = IF s.mstart.y >= s.mend.y THEN s.mend.y ELSE s.mstart.y])
    ELSE IF SEGTYPE_CIRCLE = s.msegtype
    THEN Box(TRUE,
             [p0 EXCEPT !.x = s.mcenter.x - s.mradius, !.y = s.mcenter.y + s.mradius],
             [p1 EXCEPT !.x = s.mcenter.x + s.mradius, !.y = s.mcenter.y - s.mradius])
    ELSE \* bounds of an arc: p0 starts from the end points, p1 as passed in
         LET q0 == [p0 EXCEPT
                       !.x = IF s.mstart.x < s.mend.x THEN s.mstart.x ELSE s.mend.x,
                       !.y = IF s.mstart.y > s.mend.y THEN s.mstart.y ELSE s.mend.y]
             w == WidenBox(ArcExtrema(s), 1, q0, p1)
         IN  Box(TRUE, w[1], w[2])

(***************************************************************************)
(* GetVerticalSurface( aModel, aSurface, aTopZ, aBotZ ).  aModel is TRUE   *)
(* for a non-null pointer; z values are in units of 1e-7; aSurface is the  *)
(* caller's vector.  The wall and the cylinder are other classes: what     *)
(* their Instantiate returns is the input made = <<ok, n>>, with n the     *)
(* number of surfaces a cylinder adds to the vector.  The result is        *)
(* [ret, aSurface, solid], solid being the parameters handed to the wall   *)
(* or cylinder.                                                            *)
(***************************************************************************)
ZTol == 10

NoSolid == [kind |-> "none"]

Times(n, e) == [i \in 1..n |-> e]

Surface(r, v, sol) == [ret |-> r, aSurface |-> v, solid |-> sol]

\* GetVerticalSurface handing the cylinder mstart and mend as stored
GetVerticalSurface_NoSwap(s, aModel, aSurface, aTopZ, aBotZ, made) ==
    IF ~aModel
    THEN Surface(FALSE, aSurface, NoSolid)
    ELSE IF Abs(aTopZ - aBotZ) < ZTol
    THEN Surface(FALSE, aSurface, NoSolid)
    ELSE IF s.msegtype = SEGTYPE_NONE
    THEN Surface(FALSE, aSurface, NoSolid)
    ELSE IF s.msegtype = SEGTYPE_CIRCLE \/ s.msegtype = SEGTYPE_ARC
    THEN Surface(made[1], aSurface \o Times(made[2], "cylinder"),
                 [kind |-> "cylinder", center |-> s.mcenter,
                  start |-> s.mstart, end |-> s.mend])
    ELSE LET wall == [kind |-> "wall",
                      p0 |-> [s.mstart EXCEPT !.z = aTopZ],
                      p1 |-> [s.mend EXCEPT !.z = aTopZ],
                      p2 |-> [s.mend EXCEPT !.z = aBotZ],
                      p3 |-> [s.mstart EXCEPT !.z = aBotZ]]
         IN  IF ~made[1]
             THEN Surface(FALSE, aSurface, wall)
             ELSE Surface(TRUE, Append(aSurface, "wall"), wall)

\* retrieve a trimmed parametric surface representing a vertical side
GetVerticalSurface(s, aModel, aSurface, aTopZ, aBotZ, made) ==
    IF ~aModel
    THEN Surface(FALSE, aSurface, NoSolid)
    ELSE IF Abs(aTopZ - aBotZ) < ZTol
    THEN Surface(FALSE, aSurface, NoSolid)
    ELSE IF s.msegtype = SEGTYPE_NONE
    THEN Surface(FALSE, aSurface, NoSolid)
    ELSE IF s.msegtype = SEGTYPE_CIRCLE \/ s.msegtype = SEGTYPE_ARC
    THEN Surface(made[1], aSurface \o Times(made[2], "cylinder"),
                 IF ~s.mCWArc
                 THEN [kind |-> "cylinder", center |-> s.mcenter,
                       start |-> s.mstart, end |-> s.mend]
                 ELSE [kind |-> "cylinder", center |-> s.mcenter,
                       start |-> s.mend, end |-> s.mstart])
    ELSE LET wall == [kind |-> "wall",
                      p0 |-> [s.mstart EXCEPT !.z = aTopZ],
                      p1 |-> [s.mend EXCEPT !.z = aTopZ],
                      p2 |-> [s.mend EXCEPT !.z = aBotZ],
                      p3 |-> [s.mstart EXCEPT !.z = aBotZ]]
         IN  IF ~made[1]
             THEN Surface(FALSE, aSurface, wall)
             ELSE Surface(TRUE, Append(aSurface, "wall"), wall)

(***************************************************************************)
(* The callers' inputs.  Coordinates are in grid steps.                    *)
(***************************************************************************)
Grids == {1, 4096}

\* ( aStart, aEnd ) that the line form refuses
BadLines ==
    { <<Pt(2, 0, 0), Pt(2, 0, 0)>>,     \* degenerate
      <<Pt(0, 0, 1), Pt(10, 0, 0)>>,    \* z # 0
      <<Pt(0, 0, 0), Pt(10, 0, 1)>> }

\* a line that crosses the circle of radius 5 about (0,0) once
AxisLine == <<Pt(0, 0, 0), Pt(10, 0, 0)>>

CoarseLines ==
    { <<Pt(5, -5, 0), Pt(5, 5, 0)>>,    \* touches the circle at (5,0)
      <<Pt(-5, 0, 0), Pt(5, 0, 0)>>,    \* a diameter
      <<Pt(5, 0, 0), Pt(-5, 0, 0)>>,    \* the diameter reversed
      <<Pt(0, -5, 0), Pt(0, 5, 0)>>,    \* the other diameter
      <<Pt(3, 4, 0), Pt(4, -3, 0)>>,    \* a chord
      <<Pt(-10, 0, 0), Pt(10, 0, 0)>>,  \* crosses twice, inside the segment
      <<Pt(-7, 4, 0), Pt(7, 4, 0)>>,    \* crosses twice at (-3,4), (3,4)
      <<Pt(0, 0, 0), Pt(2, 0, 0)>>,     \* wholly inside
      <<Pt(6, 0, 0), Pt(10, 0, 0)>>,    \* outside, its extension crosses
      <<Pt(5, 1, 0), Pt(5, 5, 0)>>,     \* its extension touches at (5,0)
      <<Pt(0, 10, 0), Pt(10, 10, 0)>> } \* misses

FineLines ==
    { <<Pt(5, -5, 0), Pt(5, 5, 0)>>,
      <<Pt(-10, 0, 0), Pt(10, 0, 0)>>,
      <<Pt(0, 10, 0), Pt(10, 10, 0)>> }

LineInputs1 == BadLines \cup {AxisLine}
LineInputs2Coarse == BadLines \cup {AxisLine} \cup CoarseLines
LineInputs2Fine == BadLines \cup {AxisLine} \cup FineLines

\* ( aStart, aEnd ) of the line form, for seg[i]
LineInputs(i) ==
    IF i = 1 THEN LineInputs1
    ELSE IF scale = 1 THEN LineInputs2Coarse ELSE LineInputs2Fine

\* ( aCenter, aStart, aEnd ) that the arc form refuses
BadArcs ==
    { <<Pt(0, 0, 0), Pt(5, 0, 0), Pt(10, 0, 0)>>,    \* radii differ
      <<Pt(0, 0, 0), Pt(0, 0, 0), Pt(5, 0, 0)>>,     \* centre = start
      <<Pt(0, 0, 0), Pt(5, 0, 0), Pt(0, 0, 0)>>,     \* centre = end
      <<Pt(0, 0, 0), Pt(5, 0, 0), Pt(0, 5, 1)>> }    \* z # 0

\* the circle of radius 5 about (0,0), and a quarter of it
BaseArcs ==
    { <<Pt(0, 0, 0), Pt(5, 0, 0), Pt(5, 0, 0)>>,
      <<Pt(0, 0, 0), Pt(5, 0, 0), Pt(0, 5, 0)>> }

CoarseArcs ==
    { <<Pt(0, 0, 0), Pt(0, -5, 0), Pt(5, 0, 0)>>,
      <<Pt(0, 0, 0), Pt(-5, 0, 0), Pt(0, 5, 0)>>,
      <<Pt(0, 0, 0), Pt(3, 4, 0), Pt(4, -3, 0)>> }

CoarseCircles ==
    { <<Pt(8, 0, 0), Pt(13, 0, 0), Pt(13, 0, 0)>>,   \* crosses, on the x axis
      <<Pt(0, 6, 0), Pt(0, 1, 0), Pt(0, 1, 0)>>,     \* crosses, on the y axis
      <<Pt(7, 1, 0), Pt(3, 4, 0), Pt(3, 4, 0)>>,     \* crosses, off the axes
      <<Pt(-1, 7, 0), Pt(3, 4, 0), Pt(3, 4, 0)>>,
      <<Pt(-7, -1, 0), Pt(-3, -4, 0), Pt(-3, -4, 0)>>,
      <<Pt(10, 0, 0), Pt(5, 0, 0), Pt(5, 0, 0)>>,    \* touches from outside
      <<Pt(0, 0, 0), Pt(2, 0, 0), Pt(2, 0, 0)>>,     \* concentric, inside
      <<Pt(0, 0, 0), Pt(13, 0, 0), Pt(13, 0, 0)>>,   \* concentric, around
      <<Pt(1, 0, 0), Pt(3, 0, 0), Pt(3, 0, 0)>>,     \* inside, off centre
      <<Pt(3, 0, 0), Pt(5, 0, 0), Pt(5, 0, 0)>>,     \* touches from inside
      <<Pt(20, 0, 0), Pt(25, 0, 0), Pt(25, 0, 0)>> } \* apart

FineArcs ==
    { <<Pt(0, 0, 0), Pt(5, 0, 0), Pt(6, 0, 0)>>,     \* radii within 1e-3
      <<Pt(0, 0, 0), Pt(5, 0, 0), Pt(0, 6, 0)>>,
      <<Pt(0, 0, 0), Pt(5, 0, 0), Pt(1, 0, 0)>> }

FineCircles ==
    { <<Pt(3, 0, 0), Pt(4, 0, 0), Pt(4, 0, 0)>>,     \* centres within 1e-3
      <<Pt(2, 2, 0), Pt(3, 2, 0), Pt(3, 2, 0)>>,
      <<Pt(3, 0, 0), Pt(8, 0, 0), Pt(8, 0, 0)>>,
      <<Pt(1, 0, 0), Pt(7, 0, 0), Pt(7, 0, 0)>>,
      <<Pt(5, 0, 0), Pt(6, 0, 0), Pt(6, 0, 0)>>,
      <<Pt(10, 0, 0), Pt(5, 0, 0), Pt(5, 0, 0)>>,    \* touches
      <<Pt(10, 0, 0), Pt(4, 0, 0), Pt(4, 0, 0)>>,    \* sum of radii within 1e-3
      <<Pt(8, 0, 0), Pt(3, 0, 0), Pt(3, 0, 0)>>,
      <<Pt(12, 0, 0), Pt(22, 0, 0), Pt(22, 0, 0)>>,  \* crosses the radius-10 circle
      <<Pt(9, 12, 0), Pt(9, 2, 0), Pt(9, 2, 0)>>,
      <<Pt(0, 0, 0), Pt(13, 0, 0), Pt(13, 0, 0)>>,
      <<Pt(20, 0, 0), Pt(25, 0, 0), Pt(25, 0, 0)>> }

\* a set of ( aCenter, aStart, aEnd ) with both values of isCW, or with one
EitherWay(S) == {<<t[1], t[2], t[3], cw>> : t \in S, cw \in BOOLEAN}
OneWay(S) == {<<t[1], t[2], t[3], FALSE>> : t \in S}

ArcInputs1Coarse ==
    EitherWay(BadArcs \cup BaseArcs \cup CoarseArcs) \cup OneWay(CoarseCircles)
ArcInputs1Fine ==
    EitherWay(BadArcs \cup BaseArcs \cup FineArcs) \cup OneWay(FineCircles)
ArcInputs2Coarse ==
    EitherWay(BadArcs \cup BaseArcs)
    \cup OneWay({<<Pt(0, 0, 0), Pt(2, 0, 0), Pt(2, 0, 0)>>})
ArcInputs2Fine ==
    EitherWay(BadArcs \cup BaseArcs)
    \cup OneWay({<<Pt(0, 0, 0), Pt(1, 0, 0), Pt(1, 0, 0)>>,
                 <<Pt(0, 0, 0), Pt(10, 0, 0), Pt(10, 0, 0)>>})

\* ( aCenter, aStart, aEnd, isCW ) of the arc form, for seg[i]
ArcInputs(i) ==
    IF i = 1
    THEN (IF scale = 1 THEN ArcInputs1Coarse ELSE ArcInputs1Fine)
    ELSE (IF scale = 1 THEN ArcInputs2Coarse ELSE ArcInputs2Fine)

\* ( p0, p1 ) as the caller holds them before GetBoundingBox
BoxInputs ==
    { <<Pt(0, 0, 0), Pt(0, 0, 0)>>,
      <<Pt(-30, 30, 0), Pt(30, -30, 0)>> }

\* ( aModel, aTopZ, aBotZ ) of GetVerticalSurface
SurfaceInputs ==
    { <<FALSE, 20, 0>>,      \* null model
      <<TRUE, 5, 0>>,        \* |aTopZ - aBotZ| < 1e-6
      <<TRUE, 20, 0>>,
      <<TRUE, 0, 20>> }

\* the caller's vector before GetVerticalSurface
PriorSurfaces == <<"prior">>

\* what Instantiate gives: <<ok, surfaces added by a cylinder>>
MadeInputs == { <<FALSE, 0>>, <<TRUE, 1>>, <<TRUE, 2>> }

(***************************************************************************)
(* The entity graph.  An IGES_ENTITY keeps the set of the entities that    *)
(* refer to it (its parents) and, as a parent, the ordered list of the     *)
(* entities it refers to (its children).  The implementation of            *)
(* AddReference, DelReference and Unlink is not among the sources (only    *)
(* their declarations in entity314.h and item 8 of the TODO file are), so  *)
(* these operators follow the design document, except for the status of    *)
(* AddReference, which follows the TODO file.                              *)
(***************************************************************************)
NumEntities == 3
MaxEdges == 3
Entities == 1..NumEntities

NoEntity == [alive |-> FALSE, refs |-> {}, children |-> <<>>, depends |-> FALSE]

NewEntity(physical) == [NoEntity EXCEPT !.alive = TRUE, !.depends = physical]

\* the entities on a child list
Kids(e) == {e.children[k] : k \in 1..Len(e.children)}

\* the number of entries of all child lists
RECURSIVE SumLen(_, _)
SumLen(g, S) ==
    IF S = {} THEN 0
    ELSE LET e == CHOOSE x \in S : TRUE
         IN  Len(g[e].children) + SumLen(g, S \ {e})

Edges(g) == SumLen(g, Entities)

\* the list without an entity
Without(list, aChild) == SelectSeq(list, LAMBDA x : x # aChild)

\* an AddReference that tells a duplicate by its status
AddReference_TellsDuplicate(e, aParentEntity) ==
    IF aParentEntity \in e.refs
    THEN [ret |-> FALSE, e |-> e]
    ELSE [ret |-> TRUE, e |-> [e EXCEPT !.refs = @ \cup {aParentEntity}]]

\* e.AddReference( aParentEntity ): the parent joins the parent set; the
\* function returns TRUE when the entry is a duplicate as well
AddReference(e, aParentEntity) ==
    IF aParentEntity \in e.refs
    THEN [ret |-> TRUE, e |-> e]
    ELSE [ret |-> TRUE, e |-> [e EXCEPT !.refs = @ \cup {aParentEntity}]]

\* a DelReference that leaves the parent set as it is
DelReference_KeepsParent(e, aParentEntity) ==
    [ret |-> aParentEntity \in e.refs, e |-> e]

\* e.DelReference( aParentEntity ): the parent leaves the parent set
DelReference(e, aParentEntity) ==
    [ret |-> aParentEntity \in e.refs, e |-> [e EXCEPT !.refs = @ \ {aParentEntity}]]

\* an Unlink that leaves the child list as it is
Unlink_KeepsChild(e, aChild) ==
    [ret |-> aChild \in Kids(e), e |-> e]

\* e.Unlink( aChild ): the parent removes the child from its child list
Unlink(e, aChild) ==
    [ret |-> aChild \in Kids(e), e |-> [e EXCEPT !.children = Without(@, aChild)]]

\* no parent is left and the entity exists only for its parents
IsOrphaned(e) == e.alive /\ e.refs = {} /\ e.depends

\* the entities reached from a set of entities along child lists
RECURSIVE Reach(_, _, _)
Reach(g, S, n) ==
    IF n = 0 THEN S
    ELSE Reach(g, S \cup UNION {Kids(g[e]) : e \in S}, n - 1)

Descendants(g, e) == Reach(g, Kids(g[e]), NumEntities)

\* the child-pushing routine: the parent registers itself with the child
\* and, on a TRUE status, pushes the child onto its list
AddChild(g, p, c) ==
    LET r == AddReference(g[c], p)
    IN  [ret |-> r.ret,
         g |-> IF r.ret
               THEN [[g EXCEPT ![c] = r.e] EXCEPT ![p].children = Append(@, c)]
               ELSE g]

\* every parent of the entity unlinks it
RECURSIVE UnlinkFrom(_, _, _)
UnlinkFrom(g, S, e) ==
    IF S = {} THEN g
    ELSE LET p == CHOOSE x \in S : TRUE
         IN  UnlinkFrom([g EXCEPT ![p] = Unlink(g[p], e).e], S \ {p}, e)

\* every child of the entity drops it from its parent set
RECURSIVE DelReferenceIn(_, _, _)
DelReferenceIn(g, S, e) ==
    IF S = {} THEN g
    ELSE LET c == CHOOSE x \in S : TRUE
         IN  DelReferenceIn([g EXCEPT ![c] = DelReference(g[c], e).e], S \ {c}, e)

\* the model destroys an entity: the entity unlinks itself from every parent
\* and every child; a child left orphaned that is physically dependent is
\* destroyed in turn
RECURSIVE Destroy(_, _)
RECURSIVE DestroyAll(_, _)
Destroy(g, e) ==
    IF ~g[e].alive THEN g
    ELSE LET kids == Kids(g[e])
             g1 == UnlinkFrom(g, g[e].refs, e)
             g2 == DelReferenceIn(g1, kids, e)
             g3 == [g2 EXCEPT ![e] = NoEntity]
         IN  DestroyAll(g3, {c \in kids : IsOrphaned(g3[c])})

DestroyAll(g, S) ==
    IF S = {} THEN g
    ELSE LET c == CHOOSE x \in S : TRUE
         IN  DestroyAll(Destroy(g, c), S \ {c})

\* a parent gives up a child: the child drops the parent, the parent drops
\* the child, and the model deletes a physically dependent child left
\* without parents
RemoveChild(g, p, c) ==
    LET r == DelReference(g[c], p)
        g1 == [[g EXCEPT ![c] = r.e] EXCEPT ![p] = Unlink(g[p], c).e]
    IN  [ret |-> r.ret,
         g |-> IF IsOrphaned(g1[c]) THEN Destroy(g1, c) ELSE g1]

NoGraphCall ==
    [op |-> "none", parent |-> 0, child |-> 0, ret |-> FALSE, present |-> FALSE,
     parents |-> {}, kids |-> {}]

(***************************************************************************)
(* The outline.  No outline code is among the sources; the TODO file       *)
(* states the constraints on outlines that are added or subtracted, and    *)
(* the operators below follow the design document.  What the segments of   *)
(* the two outlines report when they are intersected pairwise is an input: *)
(* the list of points found (a point on a vertex shared by two segments is *)
(* found twice), whether a pair reported an overlap along an edge, and     *)
(* whether the other outline lies inside this one.                         *)
(***************************************************************************)
NumPoints == 3
MaxFound == 3
MaxSegments == 2
MaxOps == 2
Points == 1..NumPoints

NewOutline == [state |-> "Open", segments |-> 0, stitched |-> <<>>, holes |-> 0]

NoOutlineCall ==
    [op |-> "none", found |-> <<>>, overlap |-> FALSE, inside |-> FALSE,
     ret |-> "none", before |-> NewOutline]

\* a count that takes a point found twice for two points
UniquePoints_CountsRepeats(found) == found

\* the points found, each kept once, in the order found
RECURSIVE UniquePoints(_)
UniquePoints(found) ==
    IF found = <<>> THEN <<>>
    ELSE LET rest == UniquePoints(SubSeq(found, 1, Len(found) - 1))
             p == found[Len(found)]
         IN  IF \E k \in 1..Len(rest) : rest[k] = p THEN rest ELSE Append(rest, p)

\* the two outlines may be combined: no overlap along an edge, and no or
\* two unique points of intersection
ValidIntersection(found, overlap) ==
    /\ ~overlap
    /\ Len(UniquePoints(found)) \in {0, 2}

\* subtract( other )
SubOutline(o, found, overlap, inside) ==
    IF ~ValidIntersection(found, overlap)
    THEN [ret |-> "InvalidIntersection", o |-> o]
    ELSE IF UniquePoints(found) = <<>>
         THEN \* an inner hole; an outline lying outside is not checked for
              [ret |-> "ok", o |-> [o EXCEPT !.holes = @ + 1]]
         ELSE [ret |-> "ok", o |-> [o EXCEPT !.stitched = Append(@, "subtract")]]

\* add( other )
AddOutline(o, found, overlap, inside) ==
    IF ~ValidIntersection(found, overlap)
    THEN [ret |-> "InvalidIntersection", o |-> o]
    ELSE IF UniquePoints(found) = <<>>
         THEN IF inside
              THEN [ret |-> "InvalidIntersection", o |-> o]
              ELSE [ret |-> "ok", o |-> o]
         ELSE [ret |-> "ok", o |-> [o EXCEPT !.stitched = Append(@, "add")]]

\* the lists of at most n points
RECURSIVE Found(_)
Found(n) ==
    IF n = 0 THEN {<<>>}
    ELSE Found(n - 1) \cup {Append(f, p) : f \in {g \in Found(n - 1) : Len(g) = n - 1},
                                             p \in Points}

(***************************************************************************)
(* IEEE double arithmetic.  A double has a 53 bit significand, more than   *)
(* an integer of the model checker holds, so a natural number is kept as   *)
(* a sequence of limbs of LimbBits bits, least significant first, without  *)
(* leading zero limbs (zero is the empty sequence).                        *)
(***************************************************************************)
LimbBits == 15
Base == 32768

RECURSIVE Pow2(_)
Pow2(k) == IF k = 0 THEN 1 ELSE 2 * Pow2(k - 1)

Limb(a, i) == IF i <= Len(a) THEN a[i] ELSE 0

RECURSIVE NTrim(_)
NTrim(a) ==
    IF a = <<>> THEN a
    ELSE IF a[Len(a)] = 0 THEN NTrim(SubSeq(a, 1, Len(a) - 1)) ELSE a

RECURSIVE NFromInt(_)
NFromInt(n) == IF n = 0 THEN <<>> ELSE <<n % Base>> \o NFromInt(n \div Base)

RECURSIVE NAddFrom(_, _, _, _)
NAddFrom(a, b, i, c) ==
    IF i > Len(a) /\ i > Len(b)
    THEN IF c = 0 THEN <<>> ELSE <<c>>
    ELSE LET s == Limb(a, i) + Limb(b, i) + c
         IN  <<s % Base>> \o NAddFrom(a, b, i + 1, s \div Base)

NAdd(a, b) == NAddFrom(a, b, 1, 0)

\* a - b for a >= b
RECURSIVE NSubFrom(_, _, _, _)
NSubFrom(a, b, i, c) ==
    IF i > Len(a) THEN <<>>
    ELSE LET s == a[i] - Limb(b, i) - c
         IN  IF s < 0
             THEN <<s + Base>> \o NSubFrom(a, b, i + 1, 1)
             ELSE <<s>> \o NSubFrom(a, b, i + 1, 0)

NSub(a, b) == NTrim(NSubFrom(a, b, 1, 0))

\* -1, 0 or 1 as a < b, a = b or a > b
RECURSIVE NCmpFrom(_, _, _)
NCmpFrom(a, b, i) ==
    IF i = 0 THEN 0
    ELSE IF a[i] < b[i] THEN -1
    ELSE IF a[i] > b[i] THEN 1
    ELSE NCmpFrom(a, b, i - 1)

NCmp(a, b) ==
    IF Len(a) < Len(b) THEN -1
    ELSE IF Len(a) > Len(b) THEN 1
    ELSE NCmpFrom(a, b, Len(a))

\* a * k for a limb k
RECURSIVE NMulLimbFrom(_, _, _, _)
NMulLimbFrom(a, k, i, c) ==
    IF i > Len(a)
    THEN IF c = 0 THEN <<>> ELSE <<c>>
    ELSE LET s == a[i] * k + c
         IN  <<s % Base>> \o NMulLimbFrom(a, k, i + 1, s \div Base)

NMulLimb(a, k) == IF k = 0 THEN <<>> ELSE NMulLimbFrom(a, k, 1, 0)

RECURSIVE NMul(_, _)
NMul(a, b) ==
    IF a = <<>> \/ b = <<>> THEN <<>>
    ELSE NAdd(NMulLimb(a, b[1]), NTrim(<<0>> \o NMul(a, Tail(b))))

Zeros(n) == [i \in 1..n |-> 0]

\* a * 2^k
NShl(a, k) ==
    IF a = <<>> THEN <<>>
    ELSE Zeros(k \div LimbBits) \o NMulLimb(a, Pow2(k % LimbBits))

\* a div 2^k for k below LimbBits
RECURSIVE NShrBits(_, _, _)
NShrBits(a, k, i) ==
    IF i > Len(a) THEN <<>>
    ELSE <<(a[i] \div Pow2(k)) + (Limb(a, i + 1) % Pow2(k)) * Pow2(LimbBits - k)>>
             \o NShrBits(a, k, i + 1)

\* a div 2^k
NShr(a, k) ==
    IF k \div LimbBits >= Len(a) THEN <<>>
    ELSE NTrim(NShrBits(SubSeq(a, k \div LimbBits + 1, Len(a)), k % LimbBits, 1))

RECURSIVE BitLen(_)
BitLen(n) == IF n = 0 THEN 0 ELSE 1 + BitLen(n \div 2)

NBitLen(a) == IF a = <<>> THEN 0 ELSE (Len(a) - 1) * LimbBits + BitLen(a[Len(a)])

\* bit i of a, bit 0 the least significant
NBit(a, i) == (Limb(a, i \div LimbBits + 1) \div Pow2(i % LimbBits)) % 2

\* a mod 2^k is 0
NLowZero(a, k) == NShl(NShr(a, k), k) = a

\* quotient and remainder of a by b > 0, bit by bit from the top of a:
\* one step takes bit s.i of a into the remainder
DivStep(a, b, s) ==
    LET r2 == NAdd(NShl(s.r, 1), NFromInt(NBit(a, s.i)))
        q2 == NShl(s.q, 1)
    IN  IF NCmp(r2, b) >= 0
        THEN [i |-> s.i - 1, q |-> NAdd(q2, <<1>>), r |-> NSub(r2, b)]
        ELSE [i |-> s.i - 1, q |-> q2, r |-> r2]

RECURSIVE DivLoop(_, _, _)
DivLoop(a, b, s) == IF s.i < 0 THEN s ELSE DivLoop(a, b, DivStep(a, b, s))

NDivMod(a, b) == DivLoop(a, b, [i |-> NBitLen(a) - 1, q |-> <<>>, r |-> <<>>])

\* the integer square root of a, bit by bit from the top: one step tries
\* bit s.i of the root
SqrtStep(a, s) ==
    LET c == NAdd(s.r, NShl(<<1>>, s.i))
    IN  [i |-> s.i - 1, r |-> IF NCmp(NMul(c, c), a) <= 0 THEN c ELSE s.r]

RECURSIVE SqrtLoop(_, _)
SqrtLoop(a, s) == IF s.i < 0 THEN s ELSE SqrtLoop(a, SqrtStep(a, s))

NSqrt(a) == SqrtLoop(a, [i |-> NBitLen(a) \div 2, r |-> <<>>]).r

(***************************************************************************)
(* A double is not-a-number, zero, or +-m * 2^e with a significand m of    *)
(* exactly Precision bits.  Every operation rounds the exact result to the *)
(* nearest double, ties to even.  The exponent is not bounded: the values  *)
(* of the model stay far from overflow and underflow.  An infinity is not  *)
(* told from a not-a-number.                                               *)
(***************************************************************************)
Precision == 53

NaN == [nan |-> TRUE, neg |-> FALSE, m |-> <<>>, e |-> 0]
Zero == [nan |-> FALSE, neg |-> FALSE, m |-> <<>>, e |-> 0]
Finite(neg, m, e) == [nan |-> FALSE, neg |-> neg, m |-> m, e |-> e]

IsZero(a) == ~a.nan /\ a.m = <<>>

\* the double nearest to +-(n + f) * 2^e, where 0 <= f < 1 and sticky tells
\* f > 0; with sticky set, n has more than Precision bits
Round(neg, n, e, sticky) ==
    IF n = <<>> THEN Zero
    ELSE LET len == NBitLen(n)
         IN  IF len <= Precision
             THEN Finite(neg, NShl(n, Precision - len), e - (Precision - len))
             ELSE LET k == len - Precision
                      q == NShr(n, k)
                      rest == sticky \/ ~NLowZero(n, k - 1)
                      up == NBit(n, k - 1) = 1 /\ (rest \/ NBit(q, 0) = 1)
                      q2 == IF up THEN NAdd(q, <<1>>) ELSE q
                  IN  IF NBitLen(q2) > Precision
                      THEN Finite(neg, NShr(q2, 1), e + k + 1)
                      ELSE Finite(neg, q2, e + k)

FromInt(n) == Round(n < 0, NFromInt(IF n < 0 THEN -n ELSE n), 0, FALSE)

FNeg(a) == IF a.nan \/ IsZero(a) THEN a ELSE [a EXCEPT !.neg = ~a.neg]

FAbs(a) == [a EXCEPT !.neg = FALSE]

Min(i, j) == IF i < j THEN i ELSE j

\* a + b
FAdd(a, b) ==
    IF a.nan \/ b.nan THEN NaN
    ELSE IF IsZero(a) THEN b
    ELSE IF IsZero(b) THEN a
    ELSE LET e0 == Min(a.e, b.e)
             x == NShl(a.m, a.e - e0)
             y == NShl(b.m, b.e - e0)
         IN  IF a.neg = b.neg THEN Round(a.neg, NAdd(x, y), e0, FALSE)
             ELSE IF NCmp(x, y) = 0 THEN Zero
             ELSE IF NCmp(x, y) > 0 THEN Round(a.neg, NSub(x, y), e0, FALSE)
             ELSE Round(b.neg, NSub(y, x), e0, FALSE)

\* a - b
FSub(a, b) == FAdd(a, FNeg(b))

\* a * b
FMul(a, b) ==
    IF a.nan \/ b.nan THEN NaN
    ELSE IF IsZero(a) \/ IsZero(b) THEN Zero
    ELSE Round(a.neg # b.neg, NMul(a.m, b.m), a.e + b.e, FALSE)

\* a / b
FDiv(a, b) ==
    IF a.nan \/ b.nan \/ IsZero(b) THEN NaN
    ELSE IF IsZero(a) THEN Zero
    ELSE LET d == NDivMod(NShl(a.m, Precision + 3), b.m)
         IN  Round(a.neg # b.neg, d.q, a.e - b.e - (Precision + 3), d.r # <<>>)

\* sqrt( a )
FSqrt(a) ==
    IF a.nan \/ (a.neg /\ ~IsZero(a)) THEN NaN
    ELSE IF IsZero(a) THEN Zero
    ELSE LET k == Precision + 5 + ((a.e - Precision - 5) % 2)
             n == NShl(a.m, k)
             r == NSqrt(n)
         IN  Round(FALSE, r, (a.e - k) \div 2, NMul(r, r) # n)

\* a < b, a <= b (both false for a not-a-number)
FLt(a, b) ==
    /\ ~a.nan /\ ~b.nan
    /\ LET d == FSub(a, b) IN d.neg /\ ~IsZero(d)

FLe(a, b) ==
    /\ ~a.nan /\ ~b.nan
    /\ LET d == FSub(a, b) IN d.neg \/ IsZero(d)

\* the double a decimal literal n / den stands for
Decimal(n, den) == FDiv(FromInt(n), FromInt(den))

(***************************************************************************)
(* Circles in doubles: the arc form of SetParams called with aEnd equal to *)
(* aStart, and checkCircles with the first lines of calcCircleIntercepts,  *)
(* computed operation by operation as the code computes them.              *)
(***************************************************************************)
\* a point with double coordinates
PtD(px, py, pz) == [x |-> px, y |-> py, z |-> pz]

\* the point a caller writes as ( nx/10, ny/10, 0 )
Tenths(nx, ny) == PtD(Decimal(nx, 10), Decimal(ny, 10), Zero)

\* PointMatches( p, q, tol ) in doubles: |p - q| < tol, compared on the squares
PointMatchesD(p, q, tol) ==
    LET dx == FSub(p.x, q.x)
        dy == FSub(p.y, q.y)
        dz == FSub(p.z, q.z)
    IN  FLt(FAdd(FAdd(FMul(dx, dx), FMul(dy, dy)), FMul(dz, dz)), FMul(tol, tol))

Tol8D == Decimal(1, 100000000)
Tol3D == Decimal(1, 1000)

initD ==
    [msegtype |-> SEGTYPE_NONE, mradius |-> Zero,
     mcenter |-> PtD(Zero, Zero, Zero), mstart |-> PtD(Zero, Zero, Zero),
     mend |-> PtD(Zero, Zero, Zero)]

\* SetParams( aCenter, aStart, aStart, isCW ): the arc form for a circle
SetParamsCircleD(aCenter, aStart) ==
    IF ~IsZero(aCenter.z) \/ ~IsZero(aStart.z)
    THEN [ok |-> FALSE, s |-> initD]
    ELSE IF PointMatchesD(aCenter, aStart, Tol8D)
    THEN [ok |-> FALSE, s |-> initD]
    ELSE
    LET dx == FSub(aStart.x, aCenter.x)
        dy == FSub(aStart.y, aCenter.y)
        radius == FSqrt(FAdd(FMul(dx, dx), FMul(dy, dy)))
        start == [aCenter EXCEPT !.x = FAdd(aCenter.x, radius)]
    IN  \* PointMatches( aStart, aEnd, 1e-8 ) holds for aEnd = aStart
        [ok |-> TRUE,
         s |-> [initD EXCEPT !.mradius = radius,
                             !.msegtype = SEGTYPE_CIRCLE,
                             !.mcenter = aCenter,
                             !.mstart = start,
                             !.mend = start]]

\* calcCircleIntercepts, its last lines: the two points ( x0, y0 ) and
\* ( x1, y1 ), which the code then puts in clockwise order
calcPointsD(rd, radicand, h, x, y, dx, dy) ==
    [rd |-> rd, x |-> x, y |-> y, radicand |-> radicand, h |-> h,
     x0 |-> FAdd(x, FMul(h, dy)), y0 |-> FAdd(y, FMul(h, dx)),
     x1 |-> FSub(x, FMul(h, dy)), y1 |-> FSub(y, FMul(h, dx))]

\* calcCircleIntercepts from rd on: the point ( x, y ) on the line through
\* the centers and h
calcFromRdD(self, c2, d, rd, radicand) ==
    calcPointsD(rd, radicand, FDiv(FSqrt(radicand), d),
                FAdd(FMul(FDiv(rd, d), FSub(c2.x, self.mcenter.x)), self.mcenter.x),
                FAdd(FMul(FDiv(rd, d), FSub(c2.y, self.mcenter.y)), self.mcenter.y),
                FSub(c2.x, self.mcenter.x), FSub(c2.y, self.mcenter.y))

\* rd = (d*d - r2*r2 + mradius*mradius)/(2.0 * d)
RdD(self, r2, d) ==
    FDiv(FAdd(FSub(FMul(d, d), FMul(r2, r2)), FMul(self.mradius, self.mradius)),
         FMul(FromInt(2), d))

\* mradius*mradius - rd*rd, whose root the code takes
RadicandD(self, rd) == FSub(FMul(self.mradius, self.mradius), FMul(rd, rd))

withRdD(self, c2, d, rd) == calcFromRdD(self, c2, d, rd, RadicandD(self, rd))

\* calcCircleIntercepts( c2, r2, d, p1, p2 )
calcCircleInterceptsD(self, c2, r2, d) == withRdD(self, c2, d, RdD(self, r2, d))

\* checkCircles returned before calcCircleIntercepts
NotReached ==
    [rd |-> Zero, x |-> Zero, y |-> Zero, radicand |-> Zero, h |-> Zero,
     x0 |-> Zero, y0 |-> Zero, x1 |-> Zero, y1 |-> Zero]

\* what checkCircles leaves: the return value, the flag, the distance d of
\* the centers and, when calcCircleIntercepts was called, what it computed
ResultD(r, f, dist, c) ==
    [ret |-> r, flags |-> f, d |-> dist, reached |-> c # NotReached, calc |-> c]

\* d, the distance of the centers
CenterDistD(self, c2) ==
    LET dx == FSub(self.mcenter.x, c2.x)
        dy == FSub(self.mcenter.y, c2.y)
    IN  FSqrt(FAdd(FMul(dx, dx), FMul(dy, dy)))

\* checkCircles after d is computed
checkCirclesFromD(self, c2, r2, d) ==
    IF FLt(FAdd(self.mradius, r2), d)
    THEN ResultD(FALSE, IGES_IFLAG_NONE, d, NotReached)
    ELSE IF /\ PointMatchesD(self.mcenter, c2, Tol3D)
            /\ FLt(FAbs(FSub(self.mradius, r2)), Tol3D)
    THEN ResultD(FALSE, IGES_IFLAG_IDENT, d, NotReached)
    ELSE IF FLt(FAbs(FSub(FSub(d, self.mradius), r2)), Tol3D)
    THEN ResultD(FALSE, IGES_IFLAG_TANGENT, d, NotReached)
    ELSE IF /\ (FLt(d, self.mradius) \/ FLt(d, r2))
            /\ FLe(d, FSub(self.mradius, r2))
    THEN ResultD(FALSE, IGES_IFLAG_ENCIRCLES, d, NotReached)
    ELSE IF /\ (FLt(d, self.mradius) \/ FLt(d, r2))
            /\ FLe(d, FSub(r2, self.mradius))
    THEN ResultD(FALSE, IGES_IFLAG_INSIDE, d, NotReached)
    ELSE ResultD(TRUE, IGES_IFLAG_NONE, d, calcCircleInterceptsD(self, c2, r2, d))

\* checkCircles( aSegment, aIntersectList, flags ) in doubles, called with
\* flags = IGES_IFLAG_NONE; a true return follows two push_back
checkCirclesD(self, aSegment) ==
    checkCirclesFromD(self, aSegment.mcenter, aSegment.mradius,
                      CenterDistD(self, aSegment.mcenter))

\* what the caller passes, in tenths: center ( cx, cy ) and radius r, the
\* start point being ( cx, cy + r ); the last one is degenerate
CircleInputsD ==
    {<<0, 0, 19>>, <<2, 0, 17>>, <<0, 0, 17>>, <<30, 0, 19>>, <<38, 0, 19>>,
     <<0, 0, 0>>}

\* SetParams for every input: the input, what SetParams returns and the
\* segment it leaves
ConstructedD ==
    {<<in, SetParamsCircleD(Tenths(in[1], in[2]), Tenths(in[1], in[2] + in[3]))>> :
        in \in CircleInputsD}

CirclesD == {c[2].s : c \in {k \in ConstructedD : k[2].ok}}

\* checkCircles for every pair of circles
CheckedD == {<<a, b, checkCirclesD(a, b)>> : a \in CirclesD, b \in CirclesD}

\* a.checkCircles( b, ... ), looked up
Checked(a, b) == (CHOOSE t \in CheckedD : t[1] = a /\ t[2] = b)[3]

\* no call made yet on the segments in doubles
NoCallD ==
    [op |-> "none", recv |-> 0, arg |-> 0, ret |-> FALSE,
     out |-> ResultD(FALSE, IGES_IFLAG_NONE, Zero, NotReached)]

(***************************************************************************)
(* The state machine: a caller holding two segments, a list and a flag.    *)
(***************************************************************************)
NoPoint == Pt(0, 0, 0)

NoCall ==
    [op |-> "none", recv |-> 0, arg |-> 0, aCenter |-> NoPoint, aStart |-> NoPoint,
     aEnd |-> NoPoint, isCW |-> FALSE, ret |-> FALSE, before |-> <<>>,
     was |-> SEGTYPE_NONE, io |-> <<>>]

Init ==
    /\ scale \in Grids
    /\ seg = [i \in 1..2 |-> init]
    /\ aIntersectList = <<>>
    /\ flags = IGES_IFLAG_NONE
    /\ call = NoCall
    /\ entities = [e \in Entities |-> NoEntity]
    /\ gcall = NoGraphCall
    /\ outline = NewOutline
    /\ ocall = NoOutlineCall
    /\ dseg = [i \in 1..2 |-> initD]
    /\ dcall = NoCallD

\* the operations that leave the segments as they are
Queries == {"GetIntersections", "GetBoundingBox", "GetVerticalSurface"}

\* the caller starts over with an empty list and a fresh flag
NewList ==
    /\ call.op \in Queries
    /\ aIntersectList' = <<>>
    /\ flags' = IGES_IFLAG_NONE
    /\ call' = NoCall
    /\ UNCHANGED <<scale, seg, graphVars, outlineVars, doubleVars>>

\* seg[i].SetParams( aStart, aEnd )
DoSetParamsLine(i) ==
    /\ call.op \notin Queries
    /\ \E in \in LineInputs(i) :
        LET r == SetParamsLine(in[1], in[2])
        IN  /\ seg' = [seg EXCEPT ![i] = r.s]
            /\ call' = [NoCall EXCEPT !.op = "SetParamsLine", !.recv = i,
                                      !.aStart = in[1], !.aEnd = in[2],
                                      !.ret = r.ok, !.was = seg[i].msegtype]
            /\ UNCHANGED <<scale, aIntersectList, flags, graphVars, outlineVars, doubleVars>>

\* the square root of line 130 is exact
RadiusExact(aCenter, aStart) == IsSquare(Dist2(aStart, aCenter))

\* seg[i].SetParams( aCenter, aStart, aEnd, isCW )
DoSetParamsArc(i) ==
    /\ call.op \notin Queries
    /\ \E in \in ArcInputs(i) :
        LET r == SetParamsArc(in[1], in[2], in[3], in[4])
        IN  /\ RadiusExact(in[1], in[2])
            /\ seg' = [seg EXCEPT ![i] = r.s]
            /\ call' = [NoCall EXCEPT !.op = "SetParamsArc", !.recv = i,
                                      !.aCenter = in[1], !.aStart = in[2],
                                      !.aEnd = in[3], !.isCW = in[4],
                                      !.ret = r.ok, !.was = seg[i].msegtype]
            /\ UNCHANGED <<scale, aIntersectList, flags, graphVars, outlineVars, doubleVars>>

IsCircle(s) == s.msegtype = SEGTYPE_CIRCLE
IsArc(s) == s.msegtype = SEGTYPE_ARC
IsLine(s) == s.msegtype = SEGTYPE_LINE
IsRound(s) == IsCircle(s) \/ IsArc(s)

\* every square root the call takes is exact
RootsExact(self, aSegment) ==
    /\ (IsCircle(self) /\ IsCircle(aSegment) /\ checkCircles(self, aSegment, <<>>, IGES_IFLAG_NONE).ret)
           => IsSquare(Radicand(self, aSegment.mradius, CenterDist2(self, aSegment)))
    /\ ((IsRound(self) /\ IsLine(aSegment)) \/ (IsLine(self) /\ IsRound(aSegment)))
           => LET D == Discriminant(ArcOf(self, aSegment).mcenter,
                                    ArcOf(self, aSegment).mradius,
                                    getStart(LineOf(self, aSegment)),
                                    getEnd(LineOf(self, aSegment)))
              IN  (D > 0 /\ ~AbsLt3Quartic(D)) => IsSquare(D)

\* seg[i].GetIntersections( seg[j], aIntersectList, flags )
DoGetIntersections(i, j) ==
    LET r == GetIntersections(seg[i], seg[j], aIntersectList)
    IN  /\ call.op \notin {"GetBoundingBox", "GetVerticalSurface"}
        /\ Len(aIntersectList) + 2 <= MaxList
        /\ RootsExact(seg[i], seg[j])
        /\ aIntersectList' = r.list
        /\ flags' = r.flags
        /\ call' = [NoCall EXCEPT !.op = "GetIntersections", !.recv = i, !.arg = j,
                                  !.ret = r.ret, !.before = aIntersectList]
        /\ UNCHANGED <<scale, seg, graphVars, outlineVars, doubleVars>>

\* seg[i].GetBoundingBox( p0, p1 )
DoGetBoundingBox(i) ==
    /\ call.op \notin Queries
    /\ \E in \in BoxInputs :
        LET r == GetBoundingBox(seg[i], in[1], in[2])
        IN  call' = [NoCall EXCEPT !.op = "GetBoundingBox", !.recv = i, !.ret = r.ret,
                                   !.io = [p0in |-> in[1], p1in |-> in[2],
                                           p0 |-> r.p0, p1 |-> r.p1]]
    /\ UNCHANGED <<scale, seg, aIntersectList, flags, graphVars, outlineVars, doubleVars>>

\* seg[i].GetVerticalSurface( aModel, aSurface, aTopZ, aBotZ )
DoGetVerticalSurface(i) ==
    /\ call.op \notin Queries
    /\ \E in \in SurfaceInputs, made \in MadeInputs :
        LET r == GetVerticalSurface(seg[i], in[1], PriorSurfaces, in[2], in[3], made)
        IN  call' = [NoCall EXCEPT !.op = "GetVerticalSurface", !.recv = i, !.ret = r.ret,
                                   !.io = [aModel |-> in[1], aTopZ |-> in[2],
                                           aBotZ |-> in[3], before |-> PriorSurfaces,
                                           aSurface |-> r.aSurface, solid |-> r.solid]]
    /\ UNCHANGED <<scale, seg, aIntersectList, flags, graphVars, outlineVars, doubleVars>>

Next ==
    \/ \E i \in 1..2 : DoSetParamsLine(i)
    \/ \E i \in 1..2 : DoSetParamsArc(i)
    \/ \E i \in 1..2, j \in 1..2 : DoGetIntersections(i, j)
    \/ \E i \in 1..2 : DoGetBoundingBox(i)
    \/ \E i \in 1..2 : DoGetVerticalSurface(i)
    \/ NewList

Spec == Init /\ [][Next]_vars

(***************************************************************************)
(* The state machine of the entity graph: a model that creates, links,     *)
(* unlinks and destroys entities.                                          *)
(***************************************************************************)
\* the model creates an entity
DoNewEntity(e) ==
    /\ ~entities[e].alive
    /\ \E physical \in BOOLEAN :
        entities' = [entities EXCEPT ![e] = NewEntity(physical)]
    /\ gcall' = [NoGraphCall EXCEPT !.op = "NewEntity", !.child = e]
    /\ UNCHANGED <<segmentVars, outlineVars, doubleVars>>

\* the parent p takes the child c; the graph stays free of cycles
DoAddReference(p, c) ==
    LET r == AddChild(entities, p, c)
    IN  /\ entities[p].alive /\ entities[c].alive
        /\ p # c
        /\ p \notin Descendants(entities, c)
        /\ Edges(entities) < MaxEdges
        /\ entities' = r.g
        /\ gcall' = [NoGraphCall EXCEPT !.op = "AddReference", !.parent = p, !.child = c,
                                        !.ret = r.ret,
                                        !.present = (p \in entities[c].refs)]
        /\ UNCHANGED <<segmentVars, outlineVars, doubleVars>>

\* the parent p gives up the child c
DoDelReference(p, c) ==
    LET r == RemoveChild(entities, p, c)
    IN  /\ entities[p].alive /\ entities[c].alive
        /\ c \in Kids(entities[p])
        /\ entities' = r.g
        /\ gcall' = [NoGraphCall EXCEPT !.op = "DelReference", !.parent = p, !.child = c,
                                        !.ret = r.ret,
                                        !.present = (p \in entities[c].refs)]
        /\ UNCHANGED <<segmentVars, outlineVars, doubleVars>>

\* the model destroys the entity e
DoDestroy(e) ==
    /\ entities[e].alive
    /\ entities' = Destroy(entities, e)
    /\ gcall' = [NoGraphCall EXCEPT !.op = "Destroy", !.child = e, !.ret = TRUE,
                                    !.parents = entities[e].refs,
                                    !.kids = Kids(entities[e])]
    /\ UNCHANGED <<segmentVars, outlineVars, doubleVars>>

GraphNext ==
    \/ \E e \in Entities : DoNewEntity(e)
    \/ \E p \in Entities, c \in Entities : DoAddReference(p, c)
    \/ \E p \in Entities, c \in Entities : DoDelReference(p, c)
    \/ \E e \in Entities : DoDestroy(e)

\* the segments play no part: they stay as constructed, on the unit grid
GraphInit == Init /\ scale = 1

GraphSpec == GraphInit /\ [][GraphNext]_vars

(***************************************************************************)
(* The state machine of an outline: segments are added, the outline is     *)
(* closed, and other outlines are added to it or subtracted from it.       *)
(***************************************************************************)
Booleans == {"subtract", "add"}

\* the caller has looked at the result of subtract or add
NewOutlineCall ==
    /\ ocall.op \in Booleans
    /\ ocall' = NoOutlineCall
    /\ UNCHANGED <<segmentVars, graphVars, doubleVars, outline>>

\* addSegment( seg )
DoAddSegment ==
    /\ outline.state = "Open"
    /\ outline.segments < MaxSegments
    /\ outline' = [outline EXCEPT !.segments = @ + 1]
    /\ ocall' = [NoOutlineCall EXCEPT !.op = "addSegment", !.ret = "ok",
                                      !.before = outline]
    /\ UNCHANGED <<segmentVars, graphVars, doubleVars>>

\* close()
DoClose ==
    /\ outline.state = "Open"
    /\ outline.segments > 0
    /\ outline' = [outline EXCEPT !.state = "Closed"]
    /\ ocall' = [NoOutlineCall EXCEPT !.op = "close", !.ret = "ok", !.before = outline]
    /\ UNCHANGED <<segmentVars, graphVars, doubleVars>>

\* subtract( other ), on a closed outline
DoSubOutline ==
    /\ outline.state = "Closed"
    /\ ocall.op \notin Booleans
    /\ Len(outline.stitched) + outline.holes < MaxOps
    /\ \E found \in Found(MaxFound), overlap \in BOOLEAN, inside \in BOOLEAN :
        LET r == SubOutline(outline, found, overlap, inside)
        IN  /\ outline' = r.o
            /\ ocall' = [op |-> "subtract", found |-> found, overlap |-> overlap,
                         inside |-> inside, ret |-> r.ret, before |-> outline]
    /\ UNCHANGED <<segmentVars, graphVars, doubleVars>>

\* add( other ), on a closed outline
DoAddOutline ==
    /\ outline.state = "Closed"
    /\ ocall.op \notin Booleans
    /\ Len(outline.stitched) + outline.holes < MaxOps
    /\ \E found \in Found(MaxFound), overlap \in BOOLEAN, inside \in BOOLEAN :
        LET r == AddOutline(outline, found, overlap, inside)
        IN  /\ outline' = r.o
            /\ ocall' = [op |-> "add", found |-> found, overlap |-> overlap,
                         inside |-> inside, ret |-> r.ret, before |-> outline]
    /\ UNCHANGED <<segmentVars, graphVars, doubleVars>>

OutlineNext ==
    \/ DoAddSegment
    \/ DoClose
    \/ DoSubOutline
    \/ DoAddOutline
    \/ NewOutlineCall

\* the segments and the entity graph play no part
OutlineInit == Init /\ scale = 1

OutlineSpec == OutlineInit /\ [][OutlineNext]_vars

(***************************************************************************)
(* The state machine in doubles: a caller making two circles and           *)
(* intersecting them.                                                      *)
(***************************************************************************)
\* dseg[i].SetParams( aCenter, aStart, aStart, isCW )
DoSetParamsD(i) ==
    /\ \E c \in ConstructedD :
        /\ dseg' = [dseg EXCEPT ![i] = c[2].s]
        /\ dcall' = [NoCallD EXCEPT !.op = "SetParams", !.recv = i, !.ret = c[2].ok]
    /\ UNCHANGED <<segmentVars, graphVars, outlineVars>>

\* the record of a call dseg[i].GetIntersections( dseg[j], ... ) that left r
GetIntersectionsCallD(i, j, r) ==
    [NoCallD EXCEPT !.op = "GetIntersections", !.recv = i, !.arg = j,
                    !.ret = r.ret, !.out = r]

\* dseg[i].GetIntersections( dseg[j], aIntersectList, flags ) for two
\* circles, which goes to checkCircles
DoGetIntersectionsD(i, j) ==
    /\ dseg[i].msegtype = SEGTYPE_CIRCLE
    /\ dseg[j].msegtype = SEGTYPE_CIRCLE
    /\ dcall' = GetIntersectionsCallD(i, j, Checked(dseg[i], dseg[j]))
    /\ UNCHANGED <<dseg, segmentVars, graphVars, outlineVars>>

DoubleNext ==
    \/ \E i \in 1..2 : DoSetParamsD(i)
    \/ \E i, j \in 1..2 : DoGetIntersectionsD(i, j)

\* the exact segments, the entity graph and the outline play no part
DoubleInit == Init /\ scale = 1

DoubleSpec == DoubleInit /\ [][DoubleNext]_vars

(***************************************************************************)
(* Properties.  After a call of GetIntersections, Recv and Other are the   *)
(* receiver and the argument, and Appended is what the call added to the   *)
(* list.                                                                   *)
(***************************************************************************)
Called == call.op = "GetIntersections"
Recv == seg[call.recv]
Other == seg[call.arg]
Appended == SubSeq(aIntersectList, Len(call.before) + 1, Len(aIntersectList))
PointsOf(l) == {l[n] : n \in 1..Len(l)}

\* (v1 x v2) for the vectors p1 -> q1 and p2 -> q2
Cross(p1, q1, p2, q2) ==
    (q1.x - p1.x) * (q2.y - p2.y) - (q1.y - p1.y) * (q2.x - p2.x)

\* the lines a and b are not parallel and cross within both segments:
\* a.mstart + t (a.mend - a.mstart) = b.mstart + u (b.mend - b.mstart) with
\* t = tn / c and u = un / c both in [0, 1]
CrossWithin(a, b) ==
    LET c == Cross(a.mstart, a.mend, b.mstart, b.mend)
        tn == Cross(a.mstart, b.mstart, b.mstart, b.mend)
        un == Cross(a.mstart, b.mstart, a.mstart, a.mend)
    IN  /\ c # 0
        /\ IF c > 0 THEN InUnit(tn, c) /\ InUnit(un, c)
                    ELSE InUnit(-tn, -c) /\ InUnit(-un, -c)

\* the crossing point of the lines a and b
CrossPoint(a, b) ==
    LET c == Cross(a.mstart, a.mend, b.mstart, b.mend)
        tn == Cross(a.mstart, b.mstart, b.mstart, b.mend)
        sg == IF c > 0 THEN 1 ELSE -1
    IN  RatPt(sg * (a.mstart.x * c + tn * (a.mend.x - a.mstart.x)),
              sg * (a.mstart.y * c + tn * (a.mend.y - a.mstart.y)),
              sg * c)

\* C1: two lines that are not parallel and cross within both segments give
\* exactly their crossing point, with flag None and a true return.
C1_LinesCrossAtOnePoint ==
    (Called /\ IsLine(Recv) /\ IsLine(Other) /\ CrossWithin(Recv, Other))
        => /\ call.ret = TRUE
           /\ flags = IGES_IFLAG_NONE
           /\ Appended = <<CrossPoint(Recv, Other)>>

\* C2: a segment intersected with itself reports the Coincident flag,
\* whatever its kind.
C2_SelfIsCoincident ==
    (Called /\ call.recv = call.arg /\ Recv.msegtype # SEGTYPE_NONE)
        => flags = IGES_IFLAG_IDENT

\* C3: for two constructed segments the points A.GetIntersections(B) appends
\* to an empty list are, as a set, the points B.GetIntersections(A) appends.
C3_PointSetSymmetric ==
    (Called /\ Recv.msegtype # SEGTYPE_NONE /\ Other.msegtype # SEGTYPE_NONE)
        => PointsOf(Appended) = PointsOf(GetIntersections(Other, Recv, <<>>).list)

\* C3 witness: two different circles crossing in two points, which the two
\* orders of the call return in opposite orders.
C3_Witness ==
    /\ Called /\ IsCircle(Recv) /\ IsCircle(Other) /\ Recv # Other
    /\ Len(Appended) = 2
    /\ Appended[1] # Appended[2]
    /\ GetIntersections(Other, Recv, <<>>).list = <<Appended[2], Appended[1]>>

(***************************************************************************)
(* Two circles a and b: the cases of their relative position.              *)
(***************************************************************************)
\* the centers match within 1e-3 and |r1 - r2| < 1e-3
SameCircle(a, b) ==
    /\ PointMatches(a.mcenter, b.mcenter, Tol3)
    /\ AbsLt3(a.mradius - b.mradius)

\* d > r1 + r2
Apart(a, b) ==
    CenterDist2(a, b) > (a.mradius + b.mradius) * (a.mradius + b.mradius)

\* |d - (r1 + r2)| < 1e-3
Touching(a, b) == AbsSqrtDiffLt3(CenterDist2(a, b), a.mradius + b.mradius)

\* d <= ra - rb
Around(a, b) ==
    /\ a.mradius >= b.mradius
    /\ CenterDist2(a, b) <= (a.mradius - b.mradius) * (a.mradius - b.mradius)

\* |r1 - r2| < d < r1 + r2
ProperCross(a, b) ==
    /\ CenterDist2(a, b) < (a.mradius + b.mradius) * (a.mradius + b.mradius)
    /\ CenterDist2(a, b) > (a.mradius - b.mradius) * (a.mradius - b.mradius)

Outcome(f, n) == [flag |-> f, points |-> n]

\* the outcome after the Coincident and the d > r1 + r2 cases
LaterCases(a, b) ==
    IF Touching(a, b) THEN Outcome(IGES_IFLAG_TANGENT, 0)
    ELSE IF Around(a, b) THEN Outcome(IGES_IFLAG_ENCIRCLES, 0)
    ELSE IF Around(b, a) THEN Outcome(IGES_IFLAG_INSIDE, 0)
    ELSE Outcome(IGES_IFLAG_NONE, 2)

\* the classification with the Coincident case first
CoincidentFirst(a, b) ==
    IF SameCircle(a, b) THEN Outcome(IGES_IFLAG_IDENT, 0)
    ELSE IF Apart(a, b) THEN Outcome(IGES_IFLAG_NONE, 0)
    ELSE LaterCases(a, b)

\* the classification with the d > r1 + r2 case first
ApartFirst(a, b) ==
    IF Apart(a, b) THEN Outcome(IGES_IFLAG_NONE, 0)
    ELSE IF SameCircle(a, b) THEN Outcome(IGES_IFLAG_IDENT, 0)
    ELSE LaterCases(a, b)

CircleOn(s, c, r) == IsCircle(s) /\ s.mcenter = c /\ s.mradius = r

\* the two examples: centers (0,0), (10,0) with radii 5, 5 are Tangent with
\* no points; concentric radii 2 and 5 are SegmentInsideOther
CircleExamples ==
    /\ (scale = 1 /\ CircleOn(Recv, Pt(0, 0, 0), 5) /\ CircleOn(Other, Pt(10, 0, 0), 5))
           => (flags = IGES_IFLAG_TANGENT /\ Appended = <<>>)
    /\ (scale = 1 /\ CircleOn(Recv, Pt(0, 0, 0), 2) /\ CircleOn(Other, Pt(0, 0, 0), 5))
           => flags = IGES_IFLAG_INSIDE

\* C4 as stated: two circles are classified by the first matching case of
\* Coincident, d > r1 + r2 (None, no points), Tangent, ENCIRCLES, INSIDE,
\* two points with None; with the two examples.
C4_CoincidentTestedFirst ==
    (Called /\ IsCircle(Recv) /\ IsCircle(Other))
        => /\ flags = CoincidentFirst(Recv, Other).flag
           /\ Len(Appended) = CoincidentFirst(Recv, Other).points
           /\ CircleExamples

\* C4 amended: two circles are classified by the first matching case of
\* d > r1 + r2 (None, no points), Coincident, Tangent, ENCIRCLES, INSIDE,
\* two points with None; the call returns true exactly with the two points;
\* with the two examples.
C4_ApartTestedFirst ==
    (Called /\ IsCircle(Recv) /\ IsCircle(Other))
        => /\ flags = ApartFirst(Recv, Other).flag
           /\ Len(Appended) = ApartFirst(Recv, Other).points
           /\ call.ret = (ApartFirst(Recv, Other).points = 2)
           /\ CircleExamples

\* C4 witness: two circles whose centers match within 1e-3, with equal
\* radii, and with d > r1 + r2: the call reported None
C4_Witness ==
    /\ Called /\ IsCircle(Recv) /\ IsCircle(Other)
    /\ SameCircle(Recv, Other) /\ Apart(Recv, Other)
    /\ flags = IGES_IFLAG_NONE /\ Appended = <<>>

\* the point p is at distance s.mradius from s.mcenter
OnCircleOf(p, s) ==
    (p.x - s.mcenter.x * p.w) * (p.x - s.mcenter.x * p.w)
    + (p.y - s.mcenter.y * p.w) * (p.y - s.mcenter.y * p.w)
        = s.mradius * s.mradius * p.w * p.w

\* C5: two circles that properly cross give two points, each of which lies
\* on both circles.
C5_PointsOnBothCircles ==
    (Called /\ IsCircle(Recv) /\ IsCircle(Other) /\ ProperCross(Recv, Other)
       /\ ~Touching(Recv, Other))
        => /\ Len(Appended) = 2
           /\ \A p \in PointsOf(Appended) : OnCircleOf(p, Recv) /\ OnCircleOf(p, Other)

(***************************************************************************)
(* A round segment and a line: the roots of the quadratic.                 *)
(***************************************************************************)
RoundOf(a, b) == IF IsRound(a) THEN a ELSE b
StraightOf(a, b) == IF IsRound(a) THEN b ELSE a
DOf(a, b) ==
    Discriminant(RoundOf(a, b).mcenter, RoundOf(a, b).mradius,
                 getStart(StraightOf(a, b)), getEnd(StraightOf(a, b)))

\* the call went past the tangent and the D < 0 tests
RootsComputed(a, b) == ~AbsLt3Quartic(DOf(a, b)) /\ DOf(a, b) > 0

\* the root points with t in [0, 1], as <<first computed, second computed>>
\* with NoRoot for a root outside [0, 1]
NoRoot == [x |-> 0, y |-> 0, z |-> 0, w |-> 0]
RootPoints(a, b) ==
    LET lS == getStart(StraightOf(a, b))
        lE == getEnd(StraightOf(a, b))
        nB == -QuadB(RoundOf(a, b).mcenter, lS, lE)
        den == 2 * QuadA(lS, lE)
        r == Sqrt(DOf(a, b))
    IN  <<IF InUnit(nB + r, den) THEN LinePoint(nB + r, den, lS, lE) ELSE NoRoot,
          IF InUnit(nB - r, den) THEN LinePoint(nB - r, den, lS, lE) ELSE NoRoot>>

\* the root point p is on the arc s
WithinArc(p, s) ==
    p # NoRoot /\ OnArc(AngleAbout(p, s.mcenter), s.msang, s.meang)

CircleAndLine(a, b) == (IsCircle(a) /\ IsLine(b)) \/ (IsLine(a) /\ IsCircle(b))
ArcAndLine(a, b) == (IsArc(a) /\ IsLine(b)) \/ (IsLine(a) /\ IsArc(b))

\* C6: for a circle and a line with neither root in [0, 1] the call appends
\* nothing and returns false; every point appended for a circle and a line
\* is a root point with t in [0, 1].
C6_CircleLineKeepsUnitRoots ==
    (Called /\ CircleAndLine(Recv, Other) /\ RootsComputed(Recv, Other))
        => /\ (RootPoints(Recv, Other) = <<NoRoot, NoRoot>>)
                  => (call.ret = FALSE /\ Appended = <<>>)
           /\ PointsOf(Appended) \subseteq
                  {RootPoints(Recv, Other)[1], RootPoints(Recv, Other)[2]} \ {NoRoot}

\* C7: for an arc and a line every point appended is a root point with t in
\* [0, 1] whose angle is within [startAngle, endAngle]; when both roots are
\* in [0, 1] and only the second computed is on the arc, that root point is
\* the single point appended.
C7_ArcLinePointsOnArc ==
    (Called /\ ArcAndLine(Recv, Other) /\ RootsComputed(Recv, Other))
        => LET rp == RootPoints(Recv, Other)
               arc == RoundOf(Recv, Other)
           IN  /\ \A p \in PointsOf(Appended) :
                      p \in {rp[1], rp[2]} /\ WithinArc(p, arc)
               /\ (rp[1] # NoRoot /\ ~WithinArc(rp[1], arc) /\ WithinArc(rp[2], arc))
                      => Appended = <<rp[2]>>

\* C8: for two arcs, or an arc and a circle, whose circles coincide (centers
\* and radii within 1e-3) the call reports EdgeOverlap and appends two
\* points, the endpoints of the arc when the other segment is a circle.
C8_CoincidentArcsOverlap ==
    (Called /\ IsRound(Recv) /\ IsRound(Other)
       /\ (IsArc(Recv) \/ IsArc(Other)) /\ SameCircle(Recv, Other))
        => /\ flags = IGES_IFLAG_EDGE
           /\ Len(Appended) = 2
           /\ IsCircle(Recv) => PointsOf(Appended) = {Other.mstart, Other.mend}
           /\ IsCircle(Other) => PointsOf(Appended) = {Recv.mstart, Recv.mend}

\* the angle a of atan2 as an angle in [0, 2 pi)
FromZero(a) == IF AngNonNeg(a) THEN a ELSE AddTwoPi(a)

\* C9: two circles crossing in two points: the points are appended in the
\* order a clockwise traversal of the receiver from its start point meets
\* them, i.e. by falling angle about the receiver's center.
C9_ClockwiseOnReceiver ==
    (Called /\ IsCircle(Recv) /\ IsCircle(Other) /\ Len(Appended) = 2
       /\ Appended[1] # Appended[2])
        => LET a1 == FromZero(AngleAbout(Appended[1], Recv.mcenter))
               a2 == FromZero(AngleAbout(Appended[2], Recv.mcenter))
           IN  a1 = Ang0 \/ (a2 # Ang0 /\ AngLt(a2, a1))

\* C10: the line form returns false exactly if a point has z # 0 or start is
\* end; otherwise the segment is a Line with those start and end points.
C10_LineSetParams ==
    (call.op = "SetParamsLine")
        => /\ call.ret = FALSE <=>
                  (call.aStart.z # 0 \/ call.aEnd.z # 0 \/ call.aStart = call.aEnd)
           /\ call.ret = TRUE =>
                  /\ seg[call.recv].msegtype = SEGTYPE_LINE
                  /\ seg[call.recv].mstart = call.aStart
                  /\ seg[call.recv].mend = call.aEnd

\* C10 witness: a call with two different points in the plane, after which
\* the segment is a Line
C10_Witness ==
    /\ call.op = "SetParamsLine"
    /\ call.aStart.z = 0 /\ call.aEnd.z = 0 /\ call.aStart # call.aEnd
    /\ call.ret = TRUE
    /\ IsLine(seg[call.recv])

(***************************************************************************)
(* The arc form of SetParams.                                              *)
(***************************************************************************)
CalledArc == call.op = "SetParamsArc"

\* all z = 0 and the center distinct from start and end
ArcArgsPlain ==
    /\ call.aCenter.z = 0 /\ call.aStart.z = 0 /\ call.aEnd.z = 0
    /\ call.aCenter # call.aStart /\ call.aCenter # call.aEnd

\* the distances of start and end from the center differ by more than 1e-3
RadiiDiffer ==
    \E r \in 0..64 :
        /\ r * r = Dist2(call.aStart, call.aCenter)
        /\ AbsSqrtDiffGt3(Dist2(call.aEnd, call.aCenter), r)

\* C11: the arc form with all z = 0 and the center distinct from start and
\* end has three outcomes: a Circle of radius |start - center| with
\* start = end = center + (radius, 0, 0) if start = end, for either cw; a
\* failure if the radii differ by more than 1e-3; else an Arc with the given
\* start, end and cw flag.
C11_ArcFormOutcomes ==
    (CalledArc /\ ArcArgsPlain)
        => LET s == seg[call.recv]
           IN  IF call.aStart = call.aEnd
               THEN /\ call.ret = TRUE
                    /\ IsCircle(s)
                    /\ s.mradius >= 0
                    /\ s.mradius * s.mradius = Dist2(call.aStart, call.aCenter)
                    /\ s.mcenter = call.aCenter
                    /\ s.mstart = Pt(call.aCenter.x + s.mradius, call.aCenter.y, 0)
                    /\ s.mend = s.mstart
               ELSE IF RadiiDiffer
               THEN call.ret = FALSE
               ELSE /\ call.ret = TRUE
                    /\ IsArc(s)
                    /\ s.mcenter = call.aCenter
                    /\ s.mstart = call.aStart
                    /\ s.mend = call.aEnd
                    /\ s.mCWArc = call.isCW

\* C11 witness: a clockwise Arc made from points at different distances
\* from the center, within 1e-3
C11_Witness ==
    /\ CalledArc /\ ArcArgsPlain
    /\ call.isCW = TRUE /\ call.ret = TRUE
    /\ IsArc(seg[call.recv])
    /\ Dist2(call.aStart, call.aCenter) # Dist2(call.aEnd, call.aCenter)

\* the angle a is the angle of the point p about the center c, modulo 2 pi
AngleOfPoint(a, p, c) ==
    /\ a.x = atan2(p.y - c.y, p.x - c.x).x
    /\ a.y = atan2(p.y - c.y, p.x - c.x).y

\* C12: after an arc form call that yields an Arc, for either cw and also
\* for start and end at the same angle, endAngle > startAngle strictly,
\* startAngle is the angle of getStart() and endAngle that of getEnd()
\* modulo 2 pi.
C12_EndAngleAboveStartAngle ==
    (CalledArc /\ call.ret = TRUE /\ IsArc(seg[call.recv]))
        => LET s == seg[call.recv]
           IN  /\ AngLt(s.msang, s.meang)
               /\ AngleOfPoint(s.msang, getStart(s), s.mcenter)
               /\ AngleOfPoint(s.meang, getEnd(s), s.mcenter)

(***************************************************************************)
(* The kind of a segment over a step.                                      *)
(***************************************************************************)
SetParamsOps == {"SetParamsLine", "SetParamsArc"}

\* C13 as stated: once a segment is a Line, Arc or Circle its kind is the
\* same after every step, whatever the operation.
C13_KindNeverChanges ==
    [][\A i \in 1..2 :
           seg[i].msegtype # SEGTYPE_NONE => seg'[i].msegtype = seg[i].msegtype]_vars

\* C13 amended: no step other than a SetParams call on the object changes
\* its kind; a SetParams call discards the kind the object had: afterwards
\* it is a Line (line form) or an Arc or Circle (arc form) if the call
\* returned true, and uninitialised if it returned false.
C13_KindSetBySetParamsOnly ==
    [][/\ \A i \in 1..2 :
              seg'[i].msegtype # seg[i].msegtype
                  => (call'.op \in SetParamsOps /\ call'.recv = i)
       /\ call'.op = "SetParamsLine"
              => seg'[call'.recv].msegtype =
                     (IF call'.ret THEN SEGTYPE_LINE ELSE SEGTYPE_NONE)
       /\ call'.op = "SetParamsArc"
              => seg'[call'.recv].msegtype \in
                     (IF call'.ret THEN {SEGTYPE_ARC, SEGTYPE_CIRCLE}
                                   ELSE {SEGTYPE_NONE})]_vars

\* C13 witness: a failing line form call on a segment that was a Circle
\* has left it uninitialised
C13_Witness ==
    /\ call.op = "SetParamsLine" /\ call.ret = FALSE
    /\ call.was = SEGTYPE_CIRCLE
    /\ seg[call.recv].msegtype = SEGTYPE_NONE

(***************************************************************************)
(* The bounding box of an arc.                                             *)
(***************************************************************************)
CalledBox == call.op = "GetBoundingBox"

\* the point (px, py) is within the rectangle with top-left p0 and
\* bottom-right p1
InBox(px, py, p0, p1) ==
    /\ p0.x <= px /\ px <= p1.x
    /\ p1.y <= py /\ py <= p0.y

\* the angle t, or t + 2 pi, is within the angular interval of the arc s
InSpan(t, s) == Between(t, s.msang, s.meang) \/ Between(AddTwoPi(t), s.msang, s.meang)

\* C14: for an Arc the rectangle returned contains both end points and each
\* of the four extrema (center.x + r at angle 0, center.x - r at pi,
\* center.y + r at pi/2, center.y - r at -pi/2) that is within the arc's
\* angular interval, and p0 and p1 do not depend on their values before the
\* call.
C14_ArcBoxContainsArc ==
    (CalledBox /\ IsArc(seg[call.recv]))
        => LET s == seg[call.recv]
               p0 == call.io.p0
               p1 == call.io.p1
           IN  /\ call.ret = TRUE
               /\ InBox(s.mstart.x, s.mstart.y, p0, p1)
               /\ InBox(s.mend.x, s.mend.y, p0, p1)
               /\ InSpan(Ang0, s) => InBox(s.mcenter.x + s.mradius, s.mcenter.y, p0, p1)
               /\ InSpan(AngPi, s) => InBox(s.mcenter.x - s.mradius, s.mcenter.y, p0, p1)
               /\ InSpan(AngHalfPi, s) => InBox(s.mcenter.x, s.mcenter.y + s.mradius, p0, p1)
               /\ InSpan(AngMinusHalfPi, s)
                      => InBox(s.mcenter.x, s.mcenter.y - s.mradius, p0, p1)
               /\ \A in \in BoxInputs :
                      /\ GetBoundingBox(s, in[1], in[2]).p0 = p0
                      /\ GetBoundingBox(s, in[1], in[2]).p1 = p1

(***************************************************************************)
(* The vertical surface of a segment.                                      *)
(***************************************************************************)
CalledSurface == call.op = "GetVerticalSurface"

\* the model pointer is null, |topZ - botZ| < 1e-6, or the segment is
\* uninitialised
SurfaceRefused ==
    \/ call.io.aModel = FALSE
    \/ (call.io.aTopZ - call.io.aBotZ < ZTol /\ call.io.aBotZ - call.io.aTopZ < ZTol)
    \/ seg[call.recv].msegtype = SEGTYPE_NONE

\* C15: GetVerticalSurface returns false and leaves the vector as it was
\* for a null model, |topZ - botZ| < 1e-6 or an uninitialised segment;
\* otherwise a Line is made a wall, with exactly one surface appended on
\* success, and an Arc or Circle a cylinder given its end points in CCW
\* order (start and end exchanged for a CW arc).
C15_VerticalSurface ==
    CalledSurface
        => LET s == seg[call.recv]
               io == call.io
           IN  /\ SurfaceRefused
                      => (call.ret = FALSE /\ io.aSurface = io.before
                            /\ io.solid.kind = "none")
               /\ (~SurfaceRefused /\ IsLine(s))
                      => /\ io.solid.kind = "wall"
                         /\ call.ret = TRUE => io.aSurface = io.before \o <<"wall">>
                         /\ call.ret = FALSE => io.aSurface = io.before
               /\ (~SurfaceRefused /\ IsRound(s))
                      => /\ io.solid.kind = "cylinder"
                         /\ io.solid.center = s.mcenter
                         /\ io.solid.start = (IF s.mCWArc THEN s.mend ELSE s.mstart)
                         /\ io.solid.end = (IF s.mCWArc THEN s.mstart ELSE s.mend)

\* C15 witness: a clockwise arc made a cylinder, with its end points
\* exchanged
C15_Witness ==
    /\ CalledSurface /\ ~SurfaceRefused
    /\ IsArc(seg[call.recv]) /\ seg[call.recv].mCWArc
    /\ call.ret = TRUE
    /\ call.io.solid.kind = "cylinder"
    /\ call.io.solid.start = seg[call.recv].mend
    /\ call.io.solid.start # call.io.solid.end

(***************************************************************************)
(* A round segment and a line: the tangent test.                           *)
(***************************************************************************)
RoundAndLine(a, b) == CircleAndLine(a, b) \/ ArcAndLine(a, b)

\* the point where the supporting line touches the circle when D = 0
TouchPoint(a, b) ==
    LET lS == getStart(StraightOf(a, b))
        lE == getEnd(StraightOf(a, b))
    IN  LinePoint(-QuadB(RoundOf(a, b).mcenter, lS, lE), 2 * QuadA(lS, lE), lS, lE)

\* C19: for an arc or circle and a line, in either order, the call reports
\* Tangent, with no points and a false return, exactly when |D| < 1e-3,
\* wherever the tangent point is; when D <= -1e-3 it returns false with no
\* points and flag None.
C19_TangentByDiscriminant ==
    (Called /\ RoundAndLine(Recv, Other))
        => /\ flags = IGES_IFLAG_TANGENT <=> AbsLt3Quartic(DOf(Recv, Other))
           /\ flags = IGES_IFLAG_TANGENT => (call.ret = FALSE /\ Appended = <<>>)
           /\ (DOf(Recv, Other) < 0 /\ ~AbsLt3Quartic(DOf(Recv, Other)))
                  => (call.ret = FALSE /\ Appended = <<>> /\ flags = IGES_IFLAG_NONE)

\* C19 witness: Tangent reported for a line and an arc, the line being the
\* receiver, where the line touches the arc's circle at a point that is
\* off the arc
C19_Witness ==
    /\ Called /\ IsLine(Recv) /\ IsArc(Other)
    /\ DOf(Recv, Other) = 0
    /\ ~WithinArc(TouchPoint(Recv, Other), Other)
    /\ flags = IGES_IFLAG_TANGENT /\ call.ret = FALSE /\ Appended = <<>>

\* C20: GetIntersections returns true exactly if it appended one or two
\* points; on a false return the list is as it was; entries already in the
\* list stay as they were; with an uninitialised segment the call returns
\* false with flag None.
C20_ReturnTellsAppended ==
    Called
        => /\ Len(aIntersectList) >= Len(call.before)
           /\ SubSeq(aIntersectList, 1, Len(call.before)) = call.before
           /\ call.ret = TRUE <=> Len(Appended) \in {1, 2}
           /\ call.ret = FALSE => aIntersectList = call.before
           /\ (Recv.msegtype = SEGTYPE_NONE \/ Other.msegtype = SEGTYPE_NONE)
                  => (call.ret = FALSE /\ flags = IGES_IFLAG_NONE)

\* C20 witness: a call on a list that held two points returned true and
\* appended one
C20_Witness ==
    /\ Called /\ Len(call.before) = 2
    /\ call.ret = TRUE /\ Len(Appended) = 1
    /\ aIntersectList = call.before \o Appended

(***************************************************************************)
(* Properties of the entity graph.                                         *)
(***************************************************************************)
\* the edge (p, c) as the parent and as the child record it
OnChildList(p, c) == c \in Kids(entities[p])
InParentSet(p, c) == p \in entities[c].refs

\* nobody refers to the entity and the entity refers to nobody
Unreferenced(e) ==
    /\ entities[e].refs = {}
    /\ entities[e].children = <<>>
    /\ \A o \in Entities : ~OnChildList(o, e) /\ ~InParentSet(e, o)

NoDuplicates(list) ==
    \A i \in 1..Len(list), j \in 1..Len(list) : list[i] = list[j] => i = j

\* C17: the status of AddReference tells a newly added parent (TRUE) from
\* one that was already present, and no child list ever holds the same
\* child twice.
C17_AddReferenceTellsDuplicates ==
    /\ gcall.op = "AddReference" => (gcall.ret = TRUE <=> ~gcall.present)
    /\ \A e \in Entities : NoDuplicates(entities[e].children)

(***************************************************************************)
(* Properties of the outline.                                              *)
(***************************************************************************)
CalledBoolean == ocall.op \in Booleans

\* the distinct points among those found
UniqueFound == {ocall.found[k] : k \in 1..Len(ocall.found)}

Uninitialised(s) ==
    /\ s.msegtype = SEGTYPE_NONE
    /\ s.mCWArc = FALSE
    /\ s.mradius = 0
    /\ s.msang = atan2(0, 1) /\ s.meang = atan2(0, 1)
    /\ s.mcenter = Pt(0, 0, 0) /\ s.mstart = Pt(0, 0, 0) /\ s.mend = Pt(0, 0, 0)

FailedSetParams == call.op \in SetParamsOps /\ call.ret = FALSE

\* C21: a SetParams call of either form that returns false leaves the
\* object uninitialised (kind None, radius 0, angles 0, not clockwise, all
\* points at the origin) whatever it held before, and a GetIntersections or
\* GetBoundingBox call on the object that follows returns false.
C21_FailedSetParamsUninitialises ==
    [][/\ (call'.op \in SetParamsOps /\ call'.ret = FALSE)
              => Uninitialised(seg'[call'.recv])
       /\ (FailedSetParams /\ call'.op \in {"GetIntersections", "GetBoundingBox"}
               /\ call'.recv = call.recv)
              => (call'.ret = FALSE /\ seg'[call'.recv] = seg[call.recv])]_vars

\* C21 witness: an arc form call with radii that differ, made on an object
\* that held a Line, Arc or Circle, has returned false after the radius was
\* computed, and the object is uninitialised
C21_Witness ==
    /\ CalledArc /\ ArcArgsPlain /\ call.aStart # call.aEnd /\ RadiiDiffer
    /\ call.ret = FALSE
    /\ call.was \in {SEGTYPE_LINE, SEGTYPE_ARC, SEGTYPE_CIRCLE}
    /\ Uninitialised(seg[call.recv])

(***************************************************************************)
(* Properties of the circles in doubles.                                   *)
(***************************************************************************)
\* the last call was GetIntersections on two circles: checkCircles ran
CalledCheckCirclesD == dcall.op = "GetIntersections"

\* the flags under which checkCircles returns without computing two points
Classified ==
    {IGES_IFLAG_IDENT, IGES_IFLAG_TANGENT, IGES_IFLAG_ENCIRCLES, IGES_IFLAG_INSIDE}

\* C22: for two circles made by a successful SetParams, checkCircles calls
\* calcCircleIntercepts only with d > 0 and |rd| <= mradius, so that the
\* root of mradius^2 - rd^2 and the divisions by d are defined; and with
\* d = 0 it returns under one of the flags IDENT, TANGENT, ENCIRCLES and
\* INSIDE without calling calcCircleIntercepts.
C22_InterceptsWellDefined ==
    CalledCheckCirclesD =>
        /\ dcall.out.reached =>
              /\ FLt(Zero, dcall.out.d)
              /\ FLe(FAbs(dcall.out.calc.rd), dseg[dcall.recv].mradius)
              /\ ~dcall.out.calc.h.nan
        /\ IsZero(dcall.out.d) =>
              /\ ~dcall.out.reached
              /\ dcall.out.flags \in Classified
====
